---- MODULE Spec2Model ----
(***************************************************************************)
(* Model of the fast signal tracker of the bot (bot/modules/               *)
(* fast_signal_tracker.py, driven by fast_signal_tracking_loop in          *)
(* bot/main.py) and of the store tables it works on (signals, trades), of  *)
(* the entry confirmation tracker, of the signal generation pipeline       *)
(* (check_and_generate_signal with the generator, finders and validator)   *)
(* and of the trade flow analyzer.  Each component has its own             *)
(* specification over the shared variables.                                *)
(*                                                                         *)
(* Python dicts are functions whose DOMAIN is the set of keys; a dict that *)
(* redis_manager.get returns is a one-element sequence <<value>> and None  *)
(* is << >>.  Prices are in units of 0.01, imbalances in units of 0.01,    *)
(* PnL fractions in units of 0.00001, the clock in seconds.                *)
(***************************************************************************)
EXTENDS Integers, Sequences, FiniteSets, TLC

\* ------------------------------------------------------------------------
\* Program constants
\* ------------------------------------------------------------------------
MIN_HOLD_TIME_SECONDS == 30
IMBALANCE_EXIT_REVERSED == 40
IMBALANCE_REVERSAL_PERSISTENCE_SAMPLES == 75
SIGNAL_ENTRY_PERSISTENCE_SAMPLES == 50
\* Entry thresholds: the imbalance in units of 0.0000001, the volume
\* intensity in units of 0.01.
ORDERBOOK_IMBALANCE_THRESHOLD == 1500000
MIN_LARGE_TRADES == 2
VOLUME_CONFIRMATION_MULTIPLIER == 150
\* Defaults of the stop and target finders: distances in units of 0.01 % of
\* the entry price, the risk/reward ratio in units of 0.01.
min_stop_distance_pct == 15
max_stop_distance_pct == 150
min_tp_distance_pct == 20
min_rr_ratio == 80
correlation_threshold == 6
\* The configured minimum distance of a target, in units of 0.01 %.
MIN_TP_DISTANCE_PCT == 50
\* The volume per minute assumed when no 15-minute candle is cached.
baseline_volume == 100000
\* The trade window in milliseconds (5 minutes), the floor of the large
\* trade threshold in USD, the percentile and the number of sizes the
\* percentile needs.
window_size == 300000
MIN_LARGE_TRADE_SIZE == 10000
LARGE_TRADE_PERCENTILE == 99
MIN_SIZES_FOR_PERCENTILE == 20
USE_DYNAMIC_LARGE_TRADES == TRUE

\* A NULL column value of the store (nullable Numeric columns).
NULL == -1

\* ------------------------------------------------------------------------
\* Bounds of the model
\* ------------------------------------------------------------------------
\* How many seconds past MIN_HOLD_TIME_SECONDS the clock is followed.
LateSeconds == 0

\* The tracker processes that may run against the store.
Trackers == {1, 2}

\* The instruments of the universe.
Symbols == {"BTCUSDT", "ETHUSDT"}

\* How many trades of a window are drawn freely; further trades repeat
\* the latest one (a burst), up to MaxWindow trades.
MaxVaried == 2

MaxWindow == 20

\* Event times and wall-clock readings in milliseconds: the start, the last
\* instant at which a trade of time 0 is inside the window, and the first
\* at which it is outside.
EventTimes == {0, 300000, 300001}

\* The trades process_trade builds from a message: T, p, q are the values
\* of the payload, NULL when the field is missing or not a number.
WellFormedTrades ==
    [T : EventTimes, p : {10000}, q : {1, 2}, m : BOOLEAN]

MalformedTrades ==
    [T : EventTimes, p : {10000}, q : {0, NULL}, m : {FALSE}]
        \cup [T : EventTimes, p : {NULL}, q : {1}, m : {FALSE}]
        \cup [T : {NULL}, p : {10000}, q : {1}, m : {FALSE}]

TradeInputs == WellFormedTrades \cup MalformedTrades

\* How many evaluations in a row with the confluence holding are followed
\* for an instrument.
MaxStreak == 2

\* The instruments the signal generation loop evaluates.
ActiveSymbols == {"BTCUSDT"}

\* What the snapshot cache and the klines may hold when an instrument is
\* evaluated: the order-book imbalance around the entry threshold, the
\* counts of large trades, the volume intensity, the mid price (1000.00),
\* the VWAP, the ATR (<< >>: no volatility data) and the significant levels
\* the order-book analysis finds.
ImbalanceValues ==
    {0 - 1500001, 0 - 1500000, 0 - 1499999, 1499999, 1500000, 1500001}

LargeTradeCounts == {1, 2}

VolumesPerMinute == {149000, 150000}

Kline15mInputs == {<< >>, <<[volume |-> 0]>>, <<[volume |-> 1500000]>>}

MidPrices == {100000}

Vwaps == {0, 99000, 101000}

AtrInputs == {<< >>, <<200>>, <<400>>}

LevelSets ==
    { {},
      {99800, 101000},
      {99000, 99800, 101000, 102000},
      {98000, 99000, 100200, 101000},
      {98000, 101000},
      {99000, 100000, 100400},
      {99800, 100400},
      {99500, 101000, 102000} }

\* The identifiers the emitter may give to signals.
SignalIds == {1}

\* The identifiers, imbalances and level sets of the runs in which two
\* instruments are evaluated and two signals may be emitted.
RiskSignalIds == {1, 2}

RiskImbalanceValues == {1499999, 1500001}

RiskLevelSets == { {99800, 101000} }

\* Config.BINANCE_RATE_LIMIT_WEIGHT, RateLimiter.window_seconds, the
\* difference above which correct_from_headers takes the server's value,
\* and the weight BinanceClient passes for /fapi/v1/ticker/24hr.
max_weight == 2400

window_seconds == 60

max_header_diff == 50

ticker_weight == 40

\* The tasks run() gathers.
Loops ==
    {"universe_scan_loop", "signal_generation_loop",
     "fast_signal_tracking_loop", "metrics_update_loop", "start_collecting"}

\* The weight BinanceClient passes for /fapi/v1/exchangeInfo.
exchange_info_weight == 1

\* The weights of the requests that go through the admission loop.
RequestWeights == {exchange_info_weight, ticker_weight}

\* The admission loop is followed while the deque holds fewer requests
\* than this.
MaxInWindow == 2

\* The rate limiter is followed until it has admitted this many requests.
MaxRequests == 62

\* The readings of the limiter's clock: the start, the last second at which
\* a request made at the start is inside the window, and the first second
\* at which it is outside.
LimiterInstants == {0, window_seconds, window_seconds + 1}

\* The used weight a response header may report: the weight of the request
\* it answers alone (the server's minute has just started), or the maximum.
ServerWeights == {ticker_weight, max_weight}

\* The feeds Binance offers per instrument on the combined stream.
Feeds == {"bookTicker", "depth20@100ms", "aggTrade", "kline_1m", "kline_15m"}

\* The snapshot cache is followed for this many seconds.
MaxCacheTime == 11

\* The snapshot key written and read, the values stored under it (each
\* stands for a non-empty dict), and the expiry DataCollector.process_ticker
\* passes for a price key.
SnapshotKeys == {"price:BTCUSDT"}

SnapshotValues == {1, 2}

price_expiry == 10

\* The readings of the wall clock: the creation instant, the last second
\* before the hold-time gate, the gate itself, and later.
Instants ==
    {0, MIN_HOLD_TIME_SECONDS - 1, MIN_HOLD_TIME_SECONDS}
        \cup {MIN_HOLD_TIME_SECONDS + k : k \in 1..LateSeconds}

\* The level placements a signal is emitted with: entry 100.00 with the
\* targets of scenario 1 of the specification (100.95 and 101.90) and a
\* stop 0.95% away, and the mirror image for SHORT.
Setups ==
    { [direction |-> "LONG",  entry_price |-> 10000, stop_loss |-> 9905,
       take_profit_1 |-> 10095, take_profit_2 |-> 10190],
      [direction |-> "SHORT", entry_price |-> 10000, stop_loss |-> 10095,
       take_profit_1 |-> 9905,  take_profit_2 |-> 9810] }

\* What redis_manager.get('price:<I>') may return: None, or a dict whose
\* 'mid' is one of these values (0 is the default of a dict without 'mid').
PriceInputs ==
    { << >> } \cup { <<p>> : p \in {0, 9810, 9905, 9950, 10000, 10050,
                                    10095, 10190} }

\* What redis_manager.get('imbalance:<I>') may return.
ImbalanceInputs ==
    { << >> } \cup { <<i>> : i \in {0 - 45, 0 - 40, 0, 40, 45} }

\* ------------------------------------------------------------------------
\* State
\* ------------------------------------------------------------------------
VARIABLES
    now,                 \* datetime.now(), in seconds
    signals,             \* store table signals: id -> row
    trades,              \* store table trades: sequence of rows
    running,             \* the tracker processes of this run
    open_signals_cache,  \* per tracker: {signal_id: signal_data}
    partial_close_cache, \* per tracker: {signal_id: partial close state}
    reversal_counters,   \* per tracker: {signal_id: count}
    pc,                  \* per tracker: where its loop iteration stands
    todo,                \* per tracker: cache items still to check this tick
    exit_signals,        \* per tracker: decisions collected this tick
    row,                 \* per tracker: rows of the batch already handled
    session,             \* per tracker: the store session's pending changes
    batch,               \* per tracker: outcome of this tick's closure batch
    obs,                 \* the check that the latest step made, if it
                         \*   was one: what it saw and returned (history)
    missed,              \* per tracker: {signal_id: whether the counter
                         \*   holds samples older than a non-reversed
                         \*   evaluated sample} (history)
    confirmation_counters, \* EntryConfirmationTracker: {symbol: counter}
    ec_call,             \* the check_and_update call the latest step made,
                         \*   if it was one (history)
    ec_streak,           \* {symbol: all-conditions-met calls in a row since
                         \*   the last miss, proposal or reset} (history)
    telegram_sent,       \* the signals sent to the Telegram channel
    pl_eval,             \* the evaluation check_and_generate_signal made in
                         \*   the latest step, if it was one (history)
    pl_streak,           \* {symbol: evaluations in a row in which the
                         \*   confluence held, up to 50} (history)
    flow_trades,         \* TradeFlowAnalyzer.trades: {symbol: trades}
    trade_sizes,         \* TradeFlowAnalyzer.trade_sizes: {symbol: sizes}
    wall_clock,          \* datetime.now() in milliseconds
    tf_call,             \* the call of the analyzer made by the latest
                         \*   step, with its argument or result (history)
    redis_available,     \* RedisManager.redis_available
    client_data,         \* the keys the Redis server holds: {key: value
                         \*   and the instant it expires}
    fallback_cache,      \* RedisManager.fallback_cache: {key: value}
    rm_now,              \* the time, in seconds, of the snapshot cache
    rm_last_set,         \* {key: instant and expiry of the latest set of
                         \*   the key} (history)
    rm_call,             \* the call of the manager made by the latest
                         \*   step, with its result (history)
    rl_now,              \* time.time() of the rate limiter, in seconds
    requests,            \* RateLimiter.requests: the admitted requests
    current_weight,      \* RateLimiter.current_weight
    server_weight,       \* RateLimiter.server_weight (NULL for None)
    all_streams,         \* DataCollector: the streams named in stream_url
    ws_connected,        \* DataCollector: the combined WebSocket is open
    snapshot_keys,       \* the snapshot keys the collector has written
    pending,             \* BinanceProxyClient._make_request: the weight of
                         \*   the request its admission loop holds (NULL:
                         \*   no request is in the loop)
    scanner_running,     \* BinanceFuturesScanner.running and
                         \*   DataCollector.running
    loop_pc              \* where each long-running loop of run() is

vars == <<now, signals, trades, running, open_signals_cache,
          partial_close_cache, reversal_counters, pc, todo, exit_signals,
          row, session, batch, obs, missed,
          confirmation_counters, ec_call, ec_streak,
          telegram_sent, pl_eval, pl_streak,
          flow_trades, trade_sizes, wall_clock, tf_call,
          redis_available, client_data, fallback_cache, rm_now, rm_last_set,
          rm_call, rl_now, requests, current_weight, server_weight,
          all_streams, ws_connected, snapshot_keys,
          pending, scanner_running, loop_pc>>

trackerVars == <<open_signals_cache, partial_close_cache, reversal_counters,
                 pc, todo, exit_signals, row, session, batch, missed>>

\* The state of the fast tracker, its store and its clock.
fastVars == <<now, signals, trades, running, obs, trackerVars>>

\* The state of the entry confirmation tracker.
entryVars == <<confirmation_counters, ec_call, ec_streak>>

\* The state of the signal generation pipeline (it also writes signals).
pipelineVars == <<telegram_sent, pl_eval, pl_streak>>

\* The state of the trade flow analyzer.
flowVars == <<flow_trades, trade_sizes, wall_clock, tf_call>>

\* The state of the snapshot cache manager.
cacheVars == <<redis_available, client_data, fallback_cache, rm_now,
               rm_last_set, rm_call>>

\* The state of the rate limiter.
limiterVars == <<rl_now, requests, current_weight, server_weight>>

\* The state of the data collector.
collectorVars == <<all_streams, ws_connected, snapshot_keys>>

\* The admission loop of the REST client.
admissionVars == <<pending>>

\* The running flag and the loops of the scanner.
shutdownVars == <<scanner_running, loop_pc>>

\* What the steps of one component leave alone: the other components.
outsideFast == <<entryVars, pipelineVars, flowVars, cacheVars, limiterVars, collectorVars, admissionVars, shutdownVars>>

outsideEntry == <<fastVars, pipelineVars, flowVars, cacheVars, limiterVars, collectorVars, admissionVars, shutdownVars>>

outsidePipeline == <<now, trades, running, obs, trackerVars, entryVars, flowVars, cacheVars, limiterVars, collectorVars, admissionVars, shutdownVars>>

outsideFlow == <<fastVars, entryVars, pipelineVars, cacheVars, limiterVars, collectorVars, admissionVars, shutdownVars>>

outsideCache == <<fastVars, entryVars, pipelineVars, flowVars, limiterVars, collectorVars, admissionVars, shutdownVars>>

outsideLimiter == <<fastVars, entryVars, pipelineVars, flowVars, cacheVars, collectorVars, admissionVars, shutdownVars>>

outsideAdmission == <<fastVars, entryVars, pipelineVars, flowVars, cacheVars, collectorVars, shutdownVars>>

outsideShutdown == <<fastVars, entryVars, pipelineVars, flowVars, cacheVars, limiterVars, collectorVars, admissionVars>>

outsideCollector == <<fastVars, entryVars, pipelineVars, flowVars, cacheVars, limiterVars, admissionVars, shutdownVars>>

\* ------------------------------------------------------------------------
\* Dicts
\* ------------------------------------------------------------------------
EmptyDict == << >>

Put(d, k, v) == [x \in (DOMAIN d) \cup {k} |-> IF x = k THEN v ELSE d[x]]

Del(d, k) == [x \in (DOMAIN d) \ {k} |-> d[x]]

Restrict(d, keys) == [x \in (DOMAIN d) \cap keys |-> d[x]]

\* The keys of a dict in the order a scan visits them.
RECURSIVE KeyList(_)
KeyList(keys) ==
    IF keys = {} THEN << >>
    ELSE LET k == CHOOSE x \in keys : \A y \in keys : x <= y
         IN  <<k>> \o KeyList(keys \ {k})

\* ------------------------------------------------------------------------
\* Store
\* ------------------------------------------------------------------------
\* float(x or 0) or fallback
FloatOr(x, fallback) == IF x = NULL \/ x = 0 THEN fallback ELSE x

\* A value written to a Numeric(10, 4) column, in units of 0.00001.
Numeric10_4(x) == ((x + 5) \div 10) * 10

\* The row main.py inserts for an accepted proposal.
NewSignalRow(setup) ==
    [status |-> "OPEN",
     direction |-> setup.direction,
     entry_price |-> setup.entry_price,
     stop_loss |-> setup.stop_loss,
     take_profit_1 |-> setup.take_profit_1,
     take_profit_2 |-> setup.take_profit_2,
     partial_close_status |-> "NONE",
     breakeven_moved |-> FALSE,
     current_stop_loss |-> NULL,
     tp1_pnl |-> NULL,
     tp2_pnl |-> NULL,
     created_at |-> now]

NoSession == [dirty |-> EmptyDict, new |-> << >>]

NoObs == [sample |-> "none"]

\* What a step that ran sync_cache_from_db leaves as the observation: no
\* check was made, and whether the sync went through (history).
SyncObs(t, synced) == [sample |-> "none", tracker |-> t, synced |-> synced]


\* ------------------------------------------------------------------------
\* FastSignalTracker.sync_cache_from_db
\* ------------------------------------------------------------------------
\* The ids the query Signal.status == 'OPEN' returns.
OpenIds == {s \in DOMAIN signals : signals[s].status = "OPEN"}

\* signal_data built from a store row.
SignalData(s) ==
    LET r == signals[s]
    IN  [id |-> s,
         direction |-> r.direction,
         entry_price |-> r.entry_price,
         stop_loss |-> r.stop_loss,
         take_profit_1 |-> r.take_profit_1,
         take_profit_2 |-> r.take_profit_2,
         created_at |-> r.created_at,
         partial_close_status |-> r.partial_close_status,
         breakeven_moved |-> r.breakeven_moved,
         current_stop_loss |-> FloatOr(r.current_stop_loss, NULL),
         tp1_pnl |-> FloatOr(r.tp1_pnl, NULL)]

\* The partial close state built from a store row.
PartialFromRow(s) ==
    LET r == signals[s]
    IN  [status |-> r.partial_close_status,
         breakeven_moved |-> r.breakeven_moved,
         current_sl |-> FloatOr(r.current_stop_loss, r.stop_loss),
         tp1_pnl |-> FloatOr(r.tp1_pnl, NULL)]

SyncedCache == [s \in OpenIds |-> SignalData(s)]

SyncedPartial == [s \in OpenIds |-> PartialFromRow(s)]

\* Mutant of SyncedCounters: the sync leaves the counters alone.
SyncedCounters_KeepsAll(rc) == rc

\* Counters of signals that are no longer open are deleted.
SyncedCounters(rc) == Restrict(rc, OpenIds)

\* ------------------------------------------------------------------------
\* FastSignalTracker.check_signal_hybrid
\* ------------------------------------------------------------------------
\* The tick is skipped: no imbalance, no price, or an invalid price.
DataMissing(imbalance_data, price_data) ==
    \/ imbalance_data = << >>
    \/ price_data = << >>
    \/ price_data[1] = 0

\* Mutant of Tp2Reached: the target has to be passed, not just touched.
Tp2Reached_Strict(direction, price, tp2) ==
    \/ direction = "LONG" /\ price > tp2
    \/ direction = "SHORT" /\ price < tp2

Tp2Reached(direction, price, tp2) ==
    \/ direction = "LONG" /\ price >= tp2
    \/ direction = "SHORT" /\ price <= tp2

Tp1Reached(direction, price, tp1) ==
    \/ direction = "LONG" /\ price >= tp1
    \/ direction = "SHORT" /\ price <= tp1

StopReached(direction, price, current_sl) ==
    \/ direction = "LONG" /\ price <= current_sl
    \/ direction = "SHORT" /\ price >= current_sl

\* Mutant of PastMinHold: the gate opens only after the minimum hold time.
PastMinHold_Strict(hold_time) == hold_time > MIN_HOLD_TIME_SECONDS

PastMinHold(hold_time) == hold_time >= MIN_HOLD_TIME_SECONDS

ImbalanceIsReversed(direction, imbalance) ==
    \/ direction = "LONG" /\ imbalance < 0 - IMBALANCE_EXIT_REVERSED
    \/ direction = "SHORT" /\ imbalance > IMBALANCE_EXIT_REVERSED

\* Half of the move from entry to a target, as a fraction of entry.
HalfPnl(direction, entry, target) ==
    IF direction = "LONG" THEN ((target - entry) * 50000) \div entry
    ELSE ((entry - target) * 50000) \div entry

\* The whole move from entry to the exit price, as a fraction of entry.
FullPnl(direction, entry, price) ==
    IF direction = "LONG" THEN ((price - entry) * 100000) \div entry
    ELSE ((entry - price) * 100000) \div entry

\* partial_close_cache.get(signal_id, {}) with the defaults of the code.
PartialOf(pcc, sd) ==
    IF sd.id \in DOMAIN pcc THEN pcc[sd.id]
    ELSE [status |-> "NONE", breakeven_moved |-> FALSE,
          current_sl |-> sd.stop_loss, tp1_pnl |-> NULL]

\* reversal_counters[signal_id], 0 when the key is not there yet.
CountOf(rc, s) == IF s \in DOMAIN rc THEN rc[s] ELSE 0

FlagOf(flags, s) == IF s \in DOMAIN flags THEN flags[s] ELSE FALSE

\* Priority 4: the counter after this sample and whether the exit fires.
ReversalStep(count, direction, hold_time, imbalance) ==
    IF ~PastMinHold(hold_time) THEN [count |-> count, fire |-> FALSE]
    ELSE IF ImbalanceIsReversed(direction, imbalance)
         THEN IF count + 1 >= IMBALANCE_REVERSAL_PERSISTENCE_SAMPLES
              THEN [count |-> 0, fire |-> TRUE]
              ELSE [count |-> count + 1, fire |-> FALSE]
         ELSE [count |-> 0, fire |-> FALSE]

\* Mutant of Skipped: a skipped tick resets the reversal counter.
Skipped_Resets(sd, pcc, rc) ==
    [result |-> << >>, pcc |-> pcc, rc |-> Put(rc, sd.id, 0)]

\* A skipped tick: the handler returns None before it touches its maps.
Skipped(sd, pcc, rc) == [result |-> << >>, pcc |-> pcc, rc |-> rc]

\* Mutant of FirstMatch: the sustained reversal is tried before the price
\* rules.
FirstMatch_ReversalFirst(part, sd, price, fire) ==
    IF fire THEN "IMBALANCE_REVERSED"
    ELSE IF part.status = "TP1_CLOSED"
            /\ Tp2Reached(sd.direction, price, sd.take_profit_2)
    THEN "TAKE_PROFIT_2"
    ELSE IF part.status = "NONE"
            /\ Tp1Reached(sd.direction, price, sd.take_profit_1)
    THEN "TAKE_PROFIT_1_PARTIAL"
    ELSE IF StopReached(sd.direction, price, part.current_sl)
    THEN IF part.status = "TP1_CLOSED" THEN "STOP_LOSS_BREAKEVEN"
         ELSE "STOP_LOSS"
    ELSE "NONE"

\* The exit rules in the order the handler tries them; the first that
\* matches ends the call.  fire: the reversal counter reaches its threshold
\* with this sample.
FirstMatch(part, sd, price, fire) ==
    IF part.status = "TP1_CLOSED"
       /\ Tp2Reached(sd.direction, price, sd.take_profit_2)
    THEN "TAKE_PROFIT_2"
    ELSE IF part.status = "NONE"
            /\ Tp1Reached(sd.direction, price, sd.take_profit_1)
    THEN "TAKE_PROFIT_1_PARTIAL"
    ELSE IF StopReached(sd.direction, price, part.current_sl)
    THEN IF part.status = "TP1_CLOSED" THEN "STOP_LOSS_BREAKEVEN"
         ELSE "STOP_LOSS"
    ELSE IF fire THEN "IMBALANCE_REVERSED"
    ELSE "NONE"

\* The dict the handler returns for a rule.
Decision(rule, part, sd, price) ==
    IF rule = "TAKE_PROFIT_2"
    THEN [signal_id |-> sd.id, exit_reason |-> rule, exit_price |-> price,
          tp2_pnl |-> HalfPnl(sd.direction, sd.entry_price, sd.take_profit_2),
          total_pnl |-> part.tp1_pnl
              + HalfPnl(sd.direction, sd.entry_price, sd.take_profit_2)]
    ELSE IF rule = "TAKE_PROFIT_1_PARTIAL"
    THEN [signal_id |-> sd.id, exit_reason |-> rule, exit_price |-> price,
          tp1_pnl |-> HalfPnl(sd.direction, sd.entry_price, sd.take_profit_1),
          new_sl |-> sd.entry_price]
    ELSE IF rule = "STOP_LOSS_BREAKEVEN"
    THEN [signal_id |-> sd.id, exit_reason |-> rule, exit_price |-> price,
          tp2_pnl |-> 0, total_pnl |-> part.tp1_pnl]
    ELSE IF rule = "STOP_LOSS"
    THEN [signal_id |-> sd.id, exit_reason |-> rule, exit_price |-> price,
          total_pnl |-> FullPnl(sd.direction, sd.entry_price, price)]
    ELSE [signal_id |-> sd.id, exit_reason |-> rule, exit_price |-> price]

\* The partial close state the TP1 rule writes before it returns.
Tp1State(sd) ==
    [status |-> "TP1_CLOSED",
     breakeven_moved |-> TRUE,
     current_sl |-> sd.entry_price,
     tp1_pnl |-> HalfPnl(sd.direction, sd.entry_price, sd.take_profit_1)]

\* One call: the decision (<< >> is None) and the tracker's maps after it.
CheckSignalHybrid(sd, pcc, rc, hold_time, imbalance_data, price_data) ==
    IF DataMissing(imbalance_data, price_data) THEN Skipped(sd, pcc, rc)
    ELSE
    LET id == sd.id
        price == price_data[1]
        part == PartialOf(pcc, sd)
        pcc1 == Put(pcc, id, part)
        rev == ReversalStep(CountOf(rc, id), sd.direction, hold_time,
                            imbalance_data[1])
        rule == FirstMatch(part, sd, price, rev.fire)
    IN
    IF rule \in {"TAKE_PROFIT_2", "STOP_LOSS_BREAKEVEN"} /\ part.tp1_pnl = NULL
    THEN \* None + float raises; the handler logs it and returns None
         [result |-> << >>, pcc |-> pcc1, rc |-> rc]
    ELSE IF rule = "TAKE_PROFIT_1_PARTIAL"
    THEN [result |-> << Decision(rule, part, sd, price) >>,
          pcc |-> Put(pcc, id, Tp1State(sd)),
          rc |-> rc]
    ELSE IF rule \in {"TAKE_PROFIT_2", "STOP_LOSS_BREAKEVEN", "STOP_LOSS"}
    THEN [result |-> << Decision(rule, part, sd, price) >>,
          pcc |-> pcc1, rc |-> rc]
    ELSE [result |-> IF rule = "NONE" THEN << >>
                     ELSE << Decision(rule, part, sd, price) >>,
          pcc |-> pcc1,
          rc |-> Put(rc, id, rev.count)]

\* ------------------------------------------------------------------------
\* FastSignalTracker.close_signals_batch, one row of the batch
\* ------------------------------------------------------------------------
\* Mutant of RowIsOpen: the query filters by id only.
RowIsOpen_AnyStatus(id) == id \in DOMAIN signals

\* session.query(Signal).filter_by(id=signal_id, status='OPEN').first()
RowIsOpen(id) == id \in DOMAIN signals /\ signals[id].status = "OPEN"

\* Mutant of RowChanges: the TP1 branch records the fill but leaves the
\* stop where it was.
RowChanges_StopNotMoved(e) ==
    IF e.exit_reason = "TAKE_PROFIT_1_PARTIAL"
    THEN [tp1_pnl |-> Numeric10_4(e.tp1_pnl),
          partial_close_status |-> "TP1_CLOSED",
          breakeven_moved |-> TRUE]
    ELSE IF e.exit_reason \in {"TAKE_PROFIT_2", "STOP_LOSS_BREAKEVEN"}
    THEN [tp2_pnl |-> Numeric10_4(e.tp2_pnl),
          partial_close_status |-> "FULLY_CLOSED",
          status |-> "CLOSED"]
    ELSE [status |-> "CLOSED"]

\* The columns the row handler assigns on the loaded Signal object.
RowChanges(e) ==
    IF e.exit_reason = "TAKE_PROFIT_1_PARTIAL"
    THEN [tp1_pnl |-> Numeric10_4(e.tp1_pnl),
          partial_close_status |-> "TP1_CLOSED",
          breakeven_moved |-> TRUE,
          current_stop_loss |-> e.new_sl]
    ELSE IF e.exit_reason \in {"TAKE_PROFIT_2", "STOP_LOSS_BREAKEVEN"}
    THEN [tp2_pnl |-> Numeric10_4(e.tp2_pnl),
          partial_close_status |-> "FULLY_CLOSED",
          status |-> "CLOSED"]
    ELSE [status |-> "CLOSED"]

\* The Trade objects the row handler adds to the session.
RowTrades(e, entry_price) ==
    IF e.exit_reason = "TAKE_PROFIT_1_PARTIAL" THEN << >>
    ELSE IF e.exit_reason \in {"TAKE_PROFIT_2", "STOP_LOSS_BREAKEVEN"}
    THEN << [signal_id |-> e.signal_id,
             exit_reason |-> e.exit_reason,
             pnl |-> e.total_pnl,
             tp1_pnl |-> signals[e.signal_id].tp1_pnl,
             partial_close_status |-> "FULLY_CLOSED"] >>
    ELSE << [signal_id |-> e.signal_id,
             exit_reason |-> e.exit_reason,
             pnl |-> FullPnl(signals[e.signal_id].direction, entry_price,
                             e.exit_price),
             tp1_pnl |-> NULL,
             partial_close_status |-> "NULL"] >>

\* Mutant of RowEvicts: every handled row is removed from the maps.
RowEvicts_Always(e) == e.exit_reason = e.exit_reason

\* Whether the row handler removes the signal from the tracker's maps.
RowEvicts(e) == e.exit_reason # "TAKE_PROFIT_1_PARTIAL"

\* A store row with the assigned columns written (UPDATE ... WHERE id = ?).
Written(r, changes) ==
    [f \in DOMAIN r |-> IF f \in DOMAIN changes THEN changes[f] ELSE r[f]]

\* Mutant of Flushed: only the first of the session's UPDATEs reaches the
\* store.
Flushed_OneRow(dirty) ==
    [s \in DOMAIN signals |->
        IF s \in DOMAIN dirty /\ \A o \in DOMAIN dirty : s <= o
        THEN Written(signals[s], dirty[s])
        ELSE signals[s]]

\* The signals table after the session's UPDATEs.
Flushed(dirty) ==
    [s \in DOMAIN signals |->
        IF s \in DOMAIN dirty THEN Written(signals[s], dirty[s])
        ELSE signals[s]]

\* ------------------------------------------------------------------------
\* EntryConfirmationTracker
\* ------------------------------------------------------------------------
NoCall == [op |-> "none"]

\* confirmation_counters after `if symbol not in ...: ... = 0`.
Initialised(cc, symbol) == IF symbol \in DOMAIN cc THEN cc ELSE Put(cc, symbol, 0)

\* Mutant of CheckAndUpdate: a call whose conditions fail leaves the counter.
CheckAndUpdate_KeepsOnMiss(cc, symbol, all_conditions_met) ==
    LET cc0 == Initialised(cc, symbol)
        counter == cc0[symbol] + 1
    IN  IF all_conditions_met
        THEN IF counter >= SIGNAL_ENTRY_PERSISTENCE_SAMPLES
             THEN [cc |-> Put(cc0, symbol, 0), result |-> TRUE]
             ELSE [cc |-> Put(cc0, symbol, counter), result |-> FALSE]
        ELSE [cc |-> cc0, result |-> FALSE]

\* Mutant of CheckAndUpdate: the counter is not reset after a confirmation.
CheckAndUpdate_NoResetAfterTrue(cc, symbol, all_conditions_met) ==
    LET cc0 == Initialised(cc, symbol)
        counter == cc0[symbol] + 1
    IN  IF all_conditions_met
        THEN IF counter >= SIGNAL_ENTRY_PERSISTENCE_SAMPLES
             THEN [cc |-> Put(cc0, symbol, counter - 1), result |-> TRUE]
             ELSE [cc |-> Put(cc0, symbol, counter), result |-> FALSE]
        ELSE [cc |-> Put(cc0, symbol, 0), result |-> FALSE]

\* check_and_update(symbol, all_conditions_met): the counters after the call
\* and the value returned.
CheckAndUpdate(cc, symbol, all_conditions_met) ==
    LET cc0 == Initialised(cc, symbol)
        counter == cc0[symbol] + 1
    IN  IF all_conditions_met
        THEN IF counter >= SIGNAL_ENTRY_PERSISTENCE_SAMPLES
             THEN [cc |-> Put(cc0, symbol, 0), result |-> TRUE]
             ELSE [cc |-> Put(cc0, symbol, counter), result |-> FALSE]
        ELSE [cc |-> IF cc0[symbol] > 0 THEN Put(cc0, symbol, 0) ELSE cc0,
              result |-> FALSE]

\* get_counter(symbol)
GetCounter(cc, symbol) == IF symbol \in DOMAIN cc THEN cc[symbol] ELSE 0

\* One call of check_and_update.
CheckAndUpdateCall(symbol, all_conditions_met) ==
    LET r == CheckAndUpdate(confirmation_counters, symbol, all_conditions_met)
    IN  /\ confirmation_counters' = r.cc
        /\ ec_call' = [op |-> "check_and_update",
                       symbol |-> symbol,
                       all_conditions_met |-> all_conditions_met,
                       before |-> GetCounter(confirmation_counters, symbol),
                       streak |-> ec_streak[symbol],
                       result |-> r.result]
        /\ ec_streak' = [ec_streak EXCEPT
                           ![symbol] = IF all_conditions_met /\ ~r.result
                                       THEN @ + 1 ELSE 0]
        /\ UNCHANGED outsideEntry

\* reset_counter(symbol)
ResetCounter(symbol) ==
    /\ symbol \in DOMAIN confirmation_counters
    /\ confirmation_counters' = Put(confirmation_counters, symbol, 0)
    /\ ec_call' = NoCall
    /\ ec_streak' = [ec_streak EXCEPT ![symbol] = 0]
    /\ UNCHANGED outsideEntry

\* cleanup_inactive_symbols(active_symbols)
CleanupInactiveSymbols(active_symbols) ==
    /\ DOMAIN confirmation_counters \ active_symbols # {}
    /\ confirmation_counters' = Restrict(confirmation_counters, active_symbols)
    /\ ec_call' = NoCall
    /\ ec_streak' = [symbol \in Symbols |->
                        IF symbol \in active_symbols THEN ec_streak[symbol]
                        ELSE 0]
    /\ UNCHANGED outsideEntry

\* ------------------------------------------------------------------------
\* Signal generation: SignalGenerator, the finders, SignalValidator and
\* check_and_generate_signal of main.py
\* ------------------------------------------------------------------------
NoEval == [op |-> "none"]

AbsVal(x) == IF x < 0 THEN 0 - x ELSE x

SetMax(S) == CHOOSE x \in S : \A y \in S : y <= x

SetMin(S) == CHOOSE x \in S : \A y \in S : x <= y

\* amount / entry * 100 < pct, with pct in units of 0.01.
PctBelow(amount, entry, pct) == amount * 10000 < pct * entry

\* amount / entry * 100 > pct, with pct in units of 0.01.
PctAbove(amount, entry, pct) == amount * 10000 > pct * entry

\* Mutant of ImbalanceMet: the threshold itself does not pass.
ImbalanceMet_Strict(direction, imbalance) ==
    IF direction = "LONG" THEN imbalance > ORDERBOOK_IMBALANCE_THRESHOLD
    ELSE imbalance < 0 - ORDERBOOK_IMBALANCE_THRESHOLD

\* required_conditions['orderbook_imbalance']
ImbalanceMet(direction, imbalance) ==
    IF direction = "LONG" THEN imbalance >= ORDERBOOK_IMBALANCE_THRESHOLD
    ELSE imbalance <= 0 - ORDERBOOK_IMBALANCE_THRESHOLD

\* quick_check_long / quick_check_short
QuickCheck(direction, imbalance, large_trades) ==
    ImbalanceMet(direction, imbalance) /\ large_trades >= MIN_LARGE_TRADES

\* all(required_conditions.values()) of check_long/short_conditions
AllRequired(direction, imbalance, large_trades, volume_intensity, price, vwap) ==
    /\ ImbalanceMet(direction, imbalance)
    /\ large_trades >= MIN_LARGE_TRADES
    /\ volume_intensity >= VOLUME_CONFIRMATION_MULTIPLIER
    /\ IF vwap > 0
       THEN IF direction = "LONG" THEN price > vwap ELSE price < vwap
       ELSE TRUE

\* The validator's first hard reject: abs(imbalance) < min_imbalance.
WeakImbalance(imbalance) == AbsVal(imbalance) < ORDERBOOK_IMBALANCE_THRESHOLD

\* OrderbookLevelsAnalyzer.analyze: the levels below and above the price.
SupportLevels(all_levels, price) == {l \in all_levels : l < price}

ResistanceLevels(all_levels, price) == {l \in all_levels : l > price}

\* A finder that leaves one and a half ATR between the level and the stop.
StopBehind_OneAndHalf(direction, level, atr) ==
    IF direction = "LONG" THEN level - (atr * 15) \div 10
    ELSE level + (atr * 15) \div 10

\* The stop price: half an ATR behind the strongest level.
StopBehind(direction, level, atr) ==
    IF direction = "LONG" THEN level - (atr * 5) \div 10
    ELSE level + (atr * 5) \div 10

NoStop == [is_valid |-> FALSE, stop_loss_price |-> NULL, stop_distance_usd |-> NULL]

\* find_stop_for_long / find_stop_for_short
FindStop(direction, entry_price, all_levels, atr) ==
    LET behind == IF direction = "LONG" THEN SupportLevels(all_levels, entry_price)
                  ELSE ResistanceLevels(all_levels, entry_price)
        strongest == IF direction = "LONG" THEN SetMax(behind) ELSE SetMin(behind)
        stop_loss_price == StopBehind(direction, strongest, atr)
        stop_distance_usd == IF direction = "LONG" THEN entry_price - stop_loss_price
                             ELSE stop_loss_price - entry_price
    IN  IF behind = {} THEN NoStop
        ELSE IF stop_distance_usd > 0
                /\ PctBelow(stop_distance_usd, entry_price, min_stop_distance_pct)
        THEN NoStop
        ELSE [is_valid |-> ~PctAbove(stop_distance_usd, entry_price,
                                     max_stop_distance_pct),
              stop_loss_price |-> stop_loss_price,
              stop_distance_usd |-> stop_distance_usd,
              level |-> strongest]

NoTargets == [is_valid |-> FALSE, tp1_price |-> NULL, tp2_price |-> NULL, tp1_rr_ok |-> FALSE]

\* Mutant of ExtendedReward: the second target is put at half the first.
ExtendedReward_Half(reward1_usd) == (reward1_usd * 5) \div 10

\* The reward of the second target when there is no second level.
ExtendedReward(reward1_usd) == (reward1_usd * 15) \div 10

\* find_targets_for_long / find_targets_for_short
FindTargets(direction, entry_price, stop_info, all_levels) ==
    LET ahead == IF direction = "LONG" THEN ResistanceLevels(all_levels, entry_price)
                 ELSE SupportLevels(all_levels, entry_price)
        first == IF direction = "LONG" THEN SetMin(ahead) ELSE SetMax(ahead)
        rest == ahead \ {first}
        second == IF direction = "LONG" THEN SetMin(rest) ELSE SetMax(rest)
        risk_usd == stop_info.stop_distance_usd
        reward1_usd == (AbsVal(first - entry_price) * 95) \div 100
        reward2_usd == IF rest # {}
                       THEN (AbsVal(second - entry_price) * 95) \div 100
                       ELSE ExtendedReward(reward1_usd)
        rr_ok == risk_usd > 0 /\ reward1_usd * 100 >= min_rr_ratio * risk_usd
    IN  IF ~stop_info.is_valid \/ ahead = {} THEN NoTargets
        ELSE IF reward1_usd > 0
                /\ PctBelow(reward1_usd, entry_price, min_tp_distance_pct)
        THEN NoTargets
        ELSE [is_valid |-> rr_ok,
              tp1_price |-> IF direction = "LONG" THEN entry_price + reward1_usd
                            ELSE entry_price - reward1_usd,
              tp2_price |-> IF direction = "LONG" THEN entry_price + reward2_usd
                            ELSE entry_price - reward2_usd,
              tp1_rr_ok |-> rr_ok]

\* SignalValidator.validate: is_valid, no rejection reason.
Validate(imbalance, large_trades, volume_intensity, entry_price, stop_info, tp_info, all_levels) ==
    /\ ~WeakImbalance(imbalance)
    /\ large_trades >= MIN_LARGE_TRADES
    /\ volume_intensity >= VOLUME_CONFIRMATION_MULTIPLIER
    /\ stop_info.is_valid
    /\ ~PctAbove(stop_info.stop_distance_usd, entry_price,
                 max_stop_distance_pct)
    /\ tp_info.is_valid
    /\ tp_info.tp1_rr_ok
    /\ all_levels # {}

\* check_long_conditions / check_short_conditions after the basic
\* conditions passed: whether the proposal is valid, and its levels.
DynamicLevels(direction, imbalance, large_trades, volume_intensity, price, atr_data, all_levels) ==
    IF atr_data = << >> THEN [can |-> FALSE]
    ELSE LET stop_info == FindStop(direction, price, all_levels, atr_data[1])
             tp_info == FindTargets(direction, price, stop_info, all_levels)
         IN  IF ~stop_info.is_valid \/ ~tp_info.is_valid THEN [can |-> FALSE]
             ELSE [can |-> Validate(imbalance, large_trades, volume_intensity,
                                    price, stop_info, tp_info, all_levels),
                   setup |-> [direction |-> direction,
                              entry_price |-> price,
                              stop_loss |-> stop_info.stop_loss_price,
                              take_profit_1 |-> tp_info.tp1_price,
                              take_profit_2 |-> tp_info.tp2_price,
                              level |-> stop_info.level,
                              atr |-> atr_data[1]]]

\* volume_intensity of check_and_generate_signal, in units of 0.01: the
\* current volume per minute over the average of the cached 15-minute
\* candle, or over the baseline when no candle is cached.
VolumeIntensity(current_volume_per_minute, kline_15m) ==
    IF kline_15m # << >>
    THEN IF kline_15m[1].volume > 0
         THEN (current_volume_per_minute * 15 * 100) \div kline_15m[1].volume
         ELSE 0
    ELSE (current_volume_per_minute * 100) \div baseline_volume

\* RiskManager._calculate_correlation, in tenths.
MajorCoins == {"BTCUSDT", "ETHUSDT", "BNBUSDT"}

CalculateCorrelation(symbol1, symbol2) ==
    IF symbol1 = symbol2 THEN 10
    ELSE IF symbol1 \in MajorCoins /\ symbol2 \in MajorCoins THEN 7
    ELSE IF symbol1 \in MajorCoins \/ symbol2 \in MajorCoins THEN 3
    ELSE 1

\* RiskManager.check_correlation against the OPEN records of the store;
\* raises: a query of the method raised, which its except clause answers
\* with True.
CheckCorrelation(new_symbol, raises) ==
    LET active_signals == {s \in DOMAIN signals : signals[s].status = "OPEN"}
        correlation_count ==
            Cardinality({s \in active_signals :
                CalculateCorrelation(new_symbol, signals[s].symbol)
                    > correlation_threshold})
    IN  IF raises THEN TRUE
        ELSE IF active_signals = {} THEN TRUE
        ELSE IF \E s \in active_signals : signals[s].symbol = new_symbol
        THEN FALSE
        ELSE ~(correlation_count * 2 > Cardinality(active_signals))

\* RiskManager.can_send_signal; within_limits: the three counts were read
\* and are below their limits.
CanSendSignal(symbol, within_limits, raises) ==
    within_limits /\ CheckCorrelation(symbol, raises)

\* Mutant of Persists: a signal whose message failed is not persisted.
Persists_NeedsMessage(can_send, sent, saved) == can_send /\ sent /\ saved

\* The signal record is added to the session after send_signal returned,
\* whatever it returned, and is in the store when the commit succeeds.
Persists(can_send, sent, saved) == can_send /\ saved

\* How one evaluation ends: the row persisted (if any), the message sent
\* (if any), and the history of the evaluation.
Evaluated(ids, symbol, imbalance, confluence, kline_15m, proposal, can_send, sent, saved) ==
    LET id == CHOOSE s \in ids :
                    s \notin DOMAIN signals \cup telegram_sent
        notified == can_send /\ sent
        persisted == Persists(can_send, sent, saved)
        signal_obj == NewSignalRow(proposal[1]) @@
                        [symbol |-> symbol,
                         telegram_message_id |-> IF sent THEN id ELSE NULL]
        streak == IF confluence
                  THEN IF pl_streak[symbol] < SIGNAL_ENTRY_PERSISTENCE_SAMPLES
                       THEN pl_streak[symbol] + 1 ELSE pl_streak[symbol]
                  ELSE 0
    IN  /\ signals' = IF persisted THEN Put(signals, id, signal_obj)
                      ELSE signals
        /\ telegram_sent' = IF notified THEN telegram_sent \cup {id}
                            ELSE telegram_sent
        /\ pl_streak' = [pl_streak EXCEPT ![symbol] = streak]
        /\ pl_eval' = [op |-> "evaluate",
                       symbol |-> symbol,
                       imbalance |-> imbalance,
                       gate |-> ImbalanceMet(IF imbalance < 0 THEN "SHORT"
                                             ELSE "LONG", imbalance),
                       weak |-> WeakImbalance(imbalance),
                       confluence |-> confluence,
                       streak |-> streak,
                       kline_15m |-> kline_15m,
                       proposed |-> proposal # << >>,
                       signal |-> proposal,
                       can_send |-> can_send,
                       saved |-> saved,
                       notified |-> notified,
                       persisted |-> persisted]
        /\ UNCHANGED outsidePipeline

\* check_and_generate_signal(symbol): the snapshot cache is read, the
\* conditions of both directions are checked, and a valid proposal that the
\* risk manager approves is sent to Telegram and persisted with status OPEN.
CheckAndGenerateSignalWith(ids, symbol, imbalances, level_sets) ==
    /\ ids \ (DOMAIN signals \cup telegram_sent) # {}
    /\ pl_streak[symbol] < MaxStreak
    /\ \E present \in BOOLEAN, imbalance \in imbalances,
          large_buys \in LargeTradeCounts, large_sells \in LargeTradeCounts :
        LET quick == \/ QuickCheck("LONG", imbalance, large_buys)
                     \/ QuickCheck("SHORT", imbalance, large_sells)
        IN
        IF ~present \/ ~quick
        THEN Evaluated(ids, symbol, imbalance, FALSE, "unread", << >>,
                       FALSE, FALSE, FALSE)
        ELSE \E current_volume_per_minute \in VolumesPerMinute,
                kline_15m \in Kline15mInputs, price \in MidPrices,
                vwap \in Vwaps :
            LET volume_intensity == VolumeIntensity(current_volume_per_minute,
                                                    kline_15m)
                long_required == AllRequired("LONG", imbalance, large_buys,
                                             volume_intensity, price, vwap)
                short_required == AllRequired("SHORT", imbalance, large_sells,
                                              volume_intensity, price, vwap)
                confluence == long_required \/ short_required
                cached == IF kline_15m = << >> THEN "absent" ELSE "present"
            IN
            IF ~confluence
            THEN Evaluated(ids, symbol, imbalance, FALSE, cached, << >>,
                           FALSE, FALSE, FALSE)
            ELSE \E atr_data \in AtrInputs, all_levels \in level_sets :
                LET long == IF long_required
                            THEN DynamicLevels("LONG", imbalance, large_buys,
                                               volume_intensity, price,
                                               atr_data, all_levels)
                            ELSE [can |-> FALSE]
                    short == IF short_required
                             THEN DynamicLevels("SHORT", imbalance,
                                                large_sells, volume_intensity,
                                                price, atr_data, all_levels)
                             ELSE [can |-> FALSE]
                    proposal == IF long.can THEN <<long.setup>>
                                ELSE IF short.can THEN <<short.setup>>
                                ELSE << >>
                IN
                IF proposal = << >>
                THEN Evaluated(ids, symbol, imbalance, TRUE, cached, << >>,
                               FALSE, FALSE, FALSE)
                ELSE \E within_limits \in BOOLEAN, raises \in BOOLEAN :
                    IF ~CanSendSignal(symbol, within_limits, raises)
                    THEN Evaluated(ids, symbol, imbalance, TRUE, cached, proposal,
                                   FALSE, FALSE, FALSE)
                    ELSE \E sent \in BOOLEAN, saved \in BOOLEAN :
                            Evaluated(ids, symbol, imbalance, TRUE, cached,
                                      proposal, TRUE, sent, saved)

\* One evaluation of the signal generation loop.
CheckAndGenerateSignal(symbol) ==
    CheckAndGenerateSignalWith(SignalIds, symbol, ImbalanceValues, LevelSets)

\* ------------------------------------------------------------------------
\* Trade flow: TradeFlowAnalyzer, fed by DataCollector.process_trade.
\* An instrument without a deque is modelled as one with empty deques: the
\* three operations treat the two alike.
\* ------------------------------------------------------------------------
NoFlowCall == [op |-> "none"]

\* float(x) succeeds.
IsNumber(x) == x # NULL

\* trade_size of add_trade: quantity * price, 0 when float() raises.
Notional(trade) ==
    IF IsNumber(trade.q) /\ IsNumber(trade.p) THEN trade.q * trade.p ELSE 0

ShorterLen(ts, ss) == IF Len(ts) < Len(ss) THEN Len(ts) ELSE Len(ss)

\* current_time - t.get('T', 0) raises TypeError on one of the zipped pairs.
PruneRaises(ts, ss, current_time) ==
    /\ ShorterLen(ts, ss) > 0
    /\ \/ ~IsNumber(current_time)
       \/ \E i \in 1..ShorterLen(ts, ss) : ~IsNumber(ts[i].T)

\* current_time - t.get('T', 0) <= self.window_size
InWindow(current_time, t) == current_time - t.T <= window_size

RECURSIVE Pick(_, _, _)
\* The elements of seq whose index is in idx, from index i on, in order.
Pick(seq, idx, i) ==
    IF i > Len(seq) THEN << >>
    ELSE (IF i \in idx THEN <<seq[i]>> ELSE << >>) \o Pick(seq, idx, i + 1)

\* The zipped pairs that stay: valid_trades and valid_sizes.
Valid(ts, ss, current_time) ==
    LET idx == {i \in 1..ShorterLen(ts, ss) : InWindow(current_time, ts[i])}
    IN  [trades |-> Pick(ts, idx, 1), trade_sizes |-> Pick(ss, idx, 1)]

\* add_trade(symbol, trade) on the deques ts and ss of the symbol.
AddTrade(ts, ss, trade) ==
    IF PruneRaises(ts, ss, trade.T)
    THEN [trades |-> ts, trade_sizes |-> ss]
    ELSE LET valid == Valid(ts, ss, trade.T)
         IN  [trades |-> Append(valid.trades, trade),
              trade_sizes |-> Append(valid.trade_sizes, Notional(trade))]

RECURSIVE Sorted(_)
\* sorted(sizes), by insertion of the first element into the sorted rest.
Sorted(sizes) ==
    IF sizes = << >> THEN << >>
    ELSE LET rest == Sorted(Tail(sizes))
             below == {i \in 1..Len(rest) : rest[i] < Head(sizes)}
         IN  SubSeq(rest, 1, Cardinality(below)) \o <<Head(sizes)>>
                 \o SubSeq(rest, Cardinality(below) + 1, Len(rest))

\* statistics.quantiles(sizes, n=100)[percentile - 1], in hundredths.
Quantile(sizes) ==
    LET data == Sorted(sizes)
        ld == Len(sizes)
        i == LARGE_TRADE_PERCENTILE
        j0 == (i * (ld + 1)) \div 100
        j == IF j0 < 1 THEN 1 ELSE IF j0 > ld - 1 THEN ld - 1 ELSE j0
        delta == i * (ld + 1) - j * 100
    IN  data[j] * (100 - delta) + data[j + 1] * delta

\* calculate_dynamic_threshold(symbol), in hundredths of a USD.
CalculateDynamicThreshold(ss) ==
    IF Len(ss) < MIN_SIZES_FOR_PERCENTILE THEN MIN_LARGE_TRADE_SIZE * 100
    ELSE IF Quantile(ss) > MIN_LARGE_TRADE_SIZE * 100 THEN Quantile(ss)
    ELSE MIN_LARGE_TRADE_SIZE * 100

\* The result for an instrument without trades, and the result returned
\* when the analysis raises.
ZeroResult == [large_buys |-> 0, large_sells |-> 0, total_volume |-> 0, trade_count |-> 0, dynamic_threshold |-> 0]

\* The trades of the window the statistics loop does not skip.
Counted(ts) == {i \in 1..Len(ts) : IsNumber(ts[i].q) /\ IsNumber(ts[i].p)}

RECURSIVE SumOver(_, _)
SumOver(ts, idx) ==
    IF idx = {} THEN 0
    ELSE LET i == CHOOSE k \in idx : TRUE
         IN  Notional(ts[i]) + SumOver(ts, idx \ {i})

\* analyze_trade_flow(symbol, current_time): the deques after the call and
\* the summary returned; dynamic_threshold is in hundredths of a USD.
AnalyzeTradeFlow(ts, ss, current_time) ==
    IF ts = << >>
    THEN [trades |-> ts, trade_sizes |-> ss, result |-> ZeroResult]
    ELSE IF PruneRaises(ts, ss, current_time)
    THEN [trades |-> ts, trade_sizes |-> ss, result |-> ZeroResult]
    ELSE LET valid == Valid(ts, ss, current_time)
             threshold == IF USE_DYNAMIC_LARGE_TRADES
                          THEN CalculateDynamicThreshold(valid.trade_sizes)
                          ELSE 0
             large(i) == Notional(valid.trades[i]) * 100 >= threshold
             counted == Counted(valid.trades)
         IN  [trades |-> valid.trades,
              trade_sizes |-> valid.trade_sizes,
              result |->
                [large_buys |-> Cardinality({i \in counted :
                                    ~valid.trades[i].m /\ large(i)}),
                 large_sells |-> Cardinality({i \in counted :
                                    valid.trades[i].m /\ large(i)}),
                 total_volume |-> SumOver(valid.trades, counted),
                 trade_count |-> Len(valid.trades),
                 dynamic_threshold |-> threshold]]

\* clear_old_trades(symbol, current_time): the trades deque after the call.
ClearOldTrades(ts, current_time) ==
    IF \E i \in 1..Len(ts) : ~IsNumber(ts[i].T) THEN ts
    ELSE Pick(ts, {i \in 1..Len(ts) : InWindow(current_time, ts[i])}, 1)

\* process_trade hands a trade of the stream to add_trade.  The exchange
\* does not stamp a trade later than the wall clock reads.
AddTradeCall(symbol, trade) ==
    /\ Len(flow_trades[symbol]) < MaxWindow
    /\ Len(trade_sizes[symbol]) < MaxWindow
    /\ IF Len(flow_trades[symbol]) < MaxVaried THEN TRUE
       ELSE trade = flow_trades[symbol][Len(flow_trades[symbol])]
    /\ IsNumber(trade.T) => trade.T <= wall_clock
    /\ LET r == AddTrade(flow_trades[symbol], trade_sizes[symbol], trade)
       IN  /\ flow_trades' = [flow_trades EXCEPT ![symbol] = r.trades]
           /\ trade_sizes' = [trade_sizes EXCEPT ![symbol] = r.trade_sizes]
    /\ tf_call' = [op |-> "add_trade", symbol |-> symbol, trade |-> trade]
    /\ UNCHANGED wall_clock
    /\ UNCHANGED outsideFlow

\* process_trade calls analyze_trade_flow(symbol) without a current_time:
\* the wall clock is read.
AnalyzeTradeFlowCall(symbol) ==
    /\ LET r == AnalyzeTradeFlow(flow_trades[symbol], trade_sizes[symbol],
                                 wall_clock)
       IN  /\ flow_trades' = [flow_trades EXCEPT ![symbol] = r.trades]
           /\ trade_sizes' = [trade_sizes EXCEPT ![symbol] = r.trade_sizes]
           /\ tf_call' = [op |-> "analyze_trade_flow", symbol |-> symbol,
                          result |-> r.result]
    /\ UNCHANGED wall_clock
    /\ UNCHANGED outsideFlow

\* clear_old_trades(symbol) without a current_time.
ClearOldTradesCall(symbol) ==
    /\ flow_trades' = [flow_trades EXCEPT
                         ![symbol] = ClearOldTrades(@, wall_clock)]
    /\ tf_call' = [op |-> "clear_old_trades", symbol |-> symbol]
    /\ UNCHANGED <<trade_sizes, wall_clock>>
    /\ UNCHANGED outsideFlow

\* Time passes.
WallClockAdvance ==
    /\ \E t \in EventTimes : t > wall_clock /\ wall_clock' = t
    /\ tf_call' = NoFlowCall
    /\ UNCHANGED <<flow_trades, trade_sizes>>
    /\ UNCHANGED outsideFlow

\* ------------------------------------------------------------------------
\* RedisManager
\* ------------------------------------------------------------------------
\* client.get(key) on the server: the value, unless the key was never set
\* or its time to live has run out.
ServerGet(key) ==
    IF key \in DOMAIN client_data /\ rm_now < client_data[key].expires_at
    THEN <<client_data[key].value>>
    ELSE << >>

\* fallback_cache.get(key)
FallbackGet(key) ==
    IF key \in DOMAIN fallback_cache THEN <<fallback_cache[key]>> ELSE << >>

\* connect(): the ping succeeds or raises.
Connect ==
    /\ rm_call.op = "none"
    /\ \E ok \in BOOLEAN :
         /\ redis_available' = ok
         /\ rm_call' = [op |-> "connect", ok |-> ok]
    /\ UNCHANGED <<client_data, fallback_cache, rm_now, rm_last_set>>
    /\ UNCHANGED outsideCache

\* set(key, value, expiry): setex on the server when Redis is in use (the
\* call may raise, and the except clause then stores into the fallback
\* map), a plain store into the fallback map otherwise.
Set(key, value, expiry) ==
    /\ rm_call.op # "none"
    /\ \E ok \in BOOLEAN :
         IF redis_available /\ ok
         THEN /\ client_data' = Put(client_data, key,
                                    [value |-> value,
                                     expires_at |-> rm_now + expiry])
              /\ UNCHANGED fallback_cache
         ELSE /\ fallback_cache' = Put(fallback_cache, key, value)
              /\ UNCHANGED client_data
    /\ rm_last_set' = Put(rm_last_set, key, [at |-> rm_now, expiry |-> expiry])
    /\ rm_call' = [op |-> "set", key |-> key]
    /\ UNCHANGED <<redis_available, rm_now>>
    /\ UNCHANGED outsideCache

\* get(key): the server's answer when Redis is in use (the call may raise,
\* and the except clause then answers from the fallback map), the fallback
\* map's entry otherwise.
Get(key) ==
    /\ rm_call.op # "none"
    /\ \E ok \in BOOLEAN :
         rm_call' = [op |-> "get", key |-> key,
                     fallback |-> ~(redis_available /\ ok),
                     result |-> IF redis_available /\ ok THEN ServerGet(key)
                                ELSE FallbackGet(key)]
    /\ UNCHANGED <<redis_available, client_data, fallback_cache, rm_now,
                   rm_last_set>>
    /\ UNCHANGED outsideCache

\* A second passes.
CacheTick ==
    /\ rm_call.op # "none"
    /\ rm_now < MaxCacheTime
    /\ rm_now' = rm_now + 1
    /\ rm_call' = [op |-> "tick"]
    /\ UNCHANGED <<redis_available, client_data, fallback_cache, rm_last_set>>
    /\ UNCHANGED outsideCache

\* ------------------------------------------------------------------------
\* RateLimiter
\* ------------------------------------------------------------------------
\* The total weight of the requests in reqs made at or after instant since.
RECURSIVE WeightSince(_, _)
WeightSince(reqs, since) ==
    IF reqs = << >> THEN 0
    ELSE (IF Head(reqs).time >= since THEN Head(reqs).weight ELSE 0)
            + WeightSince(Tail(reqs), since)

\* _clean_old_requests(current_time): requests older than the window leave
\* the deque from the left and their weight leaves the counter, which is
\* not let below zero.
RECURSIVE CleanOldRequests(_, _, _)
CleanOldRequests(reqs, weight, current_time) ==
    IF reqs # << >> /\ Head(reqs).time < current_time - window_seconds
    THEN CleanOldRequests(Tail(reqs), weight - Head(reqs).weight, current_time)
    ELSE [requests |-> reqs, current_weight |-> IF weight < 0 THEN 0 ELSE weight]

\* add_request(endpoint, weight): False when the counter would pass the
\* maximum, otherwise the request is recorded and counted.
AddRequest(weight) ==
    LET cleaned == CleanOldRequests(requests, current_weight, rl_now)
        admitted == cleaned.current_weight + weight <= max_weight
    IN  /\ Len(requests) < MaxRequests
        /\ requests' = IF admitted
                       THEN Append(cleaned.requests,
                                   [time |-> rl_now, weight |-> weight])
                       ELSE cleaned.requests
        /\ current_weight' = IF admitted THEN cleaned.current_weight + weight
                             ELSE cleaned.current_weight
        /\ UNCHANGED <<rl_now, server_weight>>
        /\ UNCHANGED outsideLimiter

\* correct_from_headers(headers) with X-MBX-USED-WEIGHT-1M = reported: from
\* the second header on, a difference above 50 replaces the counter.
CorrectFromHeaders(reported) ==
    /\ current_weight' =
          IF server_weight # NULL
             /\ AbsVal(reported - current_weight) > max_header_diff
          THEN reported ELSE current_weight
    /\ server_weight' = reported
    /\ UNCHANGED <<rl_now, requests>>
    /\ UNCHANGED outsideLimiter

\* time.time() moves on.
LimiterClock ==
    /\ \E n \in LimiterInstants : n > rl_now /\ rl_now' = n
    /\ UNCHANGED <<requests, current_weight, server_weight>>
    /\ UNCHANGED outsideLimiter

\* wait_if_needed() called at current_time: the deque and the counter it
\* leaves and the reading of the clock when it returns.  It sleeps only
\* when the counter is at 90 % of the maximum or above and the oldest
\* request has time left in the window; the clock then reads past the end
\* of the sleep, the first instant at which that request is outside the
\* window.  When it returns at once and a request is still in the deque,
\* the loop spins until the next reading of the clock; with an empty deque
\* no reading changes the limiter any more and the clock is left alone.
WaitIfNeeded(reqs, weight, current_time) ==
    LET cleaned == CleanOldRequests(reqs, weight, current_time)
        wait_time == IF cleaned.requests = << >> THEN 0
                     ELSE window_seconds
                            - (current_time - Head(cleaned.requests).time)
        sleeps == /\ cleaned.current_weight * 10 >= max_weight * 9
                  /\ cleaned.requests # << >>
                  /\ wait_time > 0
        woke == IF sleeps THEN current_time + wait_time + 1
                ELSE IF cleaned.requests # << >> THEN current_time + 1
                ELSE current_time
    IN  CleanOldRequests(cleaned.requests, cleaned.current_weight, woke)
            @@ [time |-> woke]

\* _make_request reaches its admission loop with a request of this weight
\* and calls add_request for the first time; a rejected request stays in
\* the loop.
MakeRequest(weight) ==
    LET cleaned == CleanOldRequests(requests, current_weight, rl_now)
        admitted == cleaned.current_weight + weight <= max_weight
    IN  /\ pending = NULL
        /\ Len(requests) < MaxInWindow
        /\ \E n \in LimiterInstants : rl_now <= n
        /\ requests' = IF admitted
                       THEN Append(cleaned.requests,
                                   [time |-> rl_now, weight |-> weight])
                       ELSE cleaned.requests
        /\ current_weight' = IF admitted THEN cleaned.current_weight + weight
                             ELSE cleaned.current_weight
        /\ pending' = IF admitted THEN NULL ELSE weight
        /\ UNCHANGED <<rl_now, server_weight>>
        /\ UNCHANGED outsideAdmission

\* One turn of the loop `while not add_request(...): wait_if_needed()`:
\* wait_if_needed, then add_request again.  The loop has no await: nothing
\* else runs between its turns.
Retry ==
    LET waited == WaitIfNeeded(requests, current_weight, rl_now)
        admitted == waited.current_weight + pending <= max_weight
    IN  /\ pending # NULL
        /\ requests' = IF admitted
                       THEN Append(waited.requests,
                                   [time |-> waited.time, weight |-> pending])
                       ELSE waited.requests
        /\ current_weight' = IF admitted THEN waited.current_weight + pending
                             ELSE waited.current_weight
        /\ pending' = IF admitted THEN NULL ELSE pending
        /\ rl_now' = waited.time
        /\ UNCHANGED server_weight
        /\ UNCHANGED outsideAdmission

\* ------------------------------------------------------------------------
\* DataCollector
\* ------------------------------------------------------------------------
\* The feeds collect_all_symbols_combined puts into the URL per instrument
\* (the depth line of the list is commented out in the code).
SubscribedFeeds == {"bookTicker", "aggTrade", "kline_1m", "kline_15m"}

\* The snapshot keys the handler of a feed's message sets for its
\* instrument: process_book_ticker, process_depth, process_trade and
\* process_kline (a 1-minute candle goes to the store, not to the cache).
KeysOf(feed) ==
    IF feed = "bookTicker" THEN {"price"}
    ELSE IF feed = "depth20@100ms" THEN {"orderbook", "imbalance", "large_orders"}
    ELSE IF feed = "aggTrade" THEN {"trade_flow"}
    ELSE IF feed = "kline_15m" THEN {"kline_15m"}
    ELSE {}

\* collect_all_symbols_combined(symbols) builds the stream URL.
CollectAllSymbolsCombined ==
    /\ all_streams = {}
    /\ all_streams' = Symbols \X SubscribedFeeds
    /\ UNCHANGED <<ws_connected, snapshot_keys>>
    /\ UNCHANGED outsideCollector

\* session.ws_connect(stream_url) succeeds.
WsConnect ==
    /\ all_streams # {}
    /\ ~ws_connected
    /\ ws_connected' = TRUE
    /\ UNCHANGED <<all_streams, snapshot_keys>>
    /\ UNCHANGED outsideCollector

\* The socket is closed or fails; the while loop will reconnect.
WsClosed ==
    /\ ws_connected
    /\ ws_connected' = FALSE
    /\ UNCHANGED <<all_streams, snapshot_keys>>
    /\ UNCHANGED outsideCollector

\* process_combined_message for a message of a subscribed stream: the
\* handler of the feed sets its keys, unless the message is malformed.
ProcessCombinedMessage(symbol, feed, well_formed) ==
    /\ ws_connected
    /\ <<symbol, feed>> \in all_streams
    /\ snapshot_keys' =
          IF well_formed
          THEN snapshot_keys \cup {<<key, symbol>> : key \in KeysOf(feed)}
          ELSE snapshot_keys
    /\ UNCHANGED <<all_streams, ws_connected>>
    /\ UNCHANGED outsideCollector

\* ------------------------------------------------------------------------
\* Environment
\* ------------------------------------------------------------------------
\* main.py persists an accepted proposal with status OPEN.
CreateSignal(s, setup) ==
    /\ s \notin DOMAIN signals
    /\ signals' = Put(signals, s, NewSignalRow(setup))
    /\ obs' = NoObs
    /\ UNCHANGED <<now, trades, running, trackerVars>>
    /\ UNCHANGED outsideFast

\* The wall clock moves on to a later reading.
AdvanceClock ==
    /\ \E n \in Instants : n > now /\ now' = n
    /\ obs' = NoObs
    /\ UNCHANGED <<signals, trades, running, trackerVars>>
    /\ UNCHANGED outsideFast

\* ------------------------------------------------------------------------
\* fast_signal_tracking_loop, one iteration of tracker t
\* ------------------------------------------------------------------------
\* The iteration starts: the periodic sync when it is due (the store may
\* fail, which leaves the maps as they are), exit_signals = [], and the scan
\* of list(open_signals_cache.items()) begins.
TickStart(t) ==
    /\ t \in running
    /\ pc[t] = "idle"
    /\ \E synced \in BOOLEAN :
        LET cache == IF synced THEN SyncedCache ELSE open_signals_cache[t]
        IN
        /\ open_signals_cache' = [open_signals_cache EXCEPT ![t] = cache]
        /\ partial_close_cache' =
              [partial_close_cache EXCEPT
                  ![t] = IF synced THEN SyncedPartial ELSE @]
        /\ reversal_counters' =
              [reversal_counters EXCEPT
                  ![t] = IF synced THEN SyncedCounters(@) ELSE @]
        /\ missed' =
              [missed EXCEPT ![t] = IF synced THEN Restrict(@, OpenIds) ELSE @]
        /\ todo' = [todo EXCEPT ![t] = KeyList(DOMAIN cache)]
        /\ pc' = [pc EXCEPT ![t] = IF DOMAIN cache = {} THEN "idle" ELSE "scan"]
        /\ obs' = SyncObs(t, synced)
    /\ exit_signals' = [exit_signals EXCEPT ![t] = << >>]
    /\ row' = [row EXCEPT ![t] = 0]
    /\ batch' = [batch EXCEPT ![t] = "none"]
    /\ UNCHANGED <<now, signals, trades, running, session>>
    /\ UNCHANGED outsideFast

\* The history variable missed after a check.  It is TRUE when the latest
\* evaluated sample that was neither counted nor a reset was not reversed
\* and left a positive counter standing; then that sample lies among the
\* latest `counter + 1` evaluated samples.
MissedAfter(old, evaluated, reversed, before, after) ==
    IF ~evaluated THEN old
    ELSE IF after = 0 THEN FALSE
    ELSE IF after = before + 1 THEN old
    ELSE ~reversed

\* What a sample shows (history): the imbalance is on the side against the
\* position and beyond the exit threshold.
Opposite(direction, imbalance) ==
    IF direction = "LONG" THEN 0 - imbalance > IMBALANCE_EXIT_REVERSED
    ELSE imbalance > IMBALANCE_EXIT_REVERSED

\* The mid price is at or beyond the stop the tracker holds for the signal,
\* or at or beyond the take-profit that is pending (TP1 before the partial
\* close, TP2 after it).
AtExitLevel(part, sd, price) ==
    IF sd.direction = "LONG"
    THEN \/ price <= part.current_sl
         \/ part.status = "NONE" /\ price >= sd.take_profit_1
         \/ part.status = "TP1_CLOSED" /\ price >= sd.take_profit_2
    ELSE \/ price >= part.current_sl
         \/ part.status = "NONE" /\ price <= sd.take_profit_1
         \/ part.status = "TP1_CLOSED" /\ price <= sd.take_profit_2

\* check_signal_hybrid(signal_data) for the next item of the scan, with what
\* the snapshot cache holds at that moment.
Check(t) ==
    /\ t \in running
    /\ pc[t] = "scan"
    /\ \E imbalance_data \in ImbalanceInputs, price_data \in PriceInputs :
        LET s == Head(todo[t])
            sd == open_signals_cache[t][s]
            hold_time == now - sd.created_at
            r == CheckSignalHybrid(sd, partial_close_cache[t],
                                   reversal_counters[t], hold_time,
                                   imbalance_data, price_data)
            exits == exit_signals[t] \o r.result
            evaluated == ~DataMissing(imbalance_data, price_data)
            reversed == evaluated /\ Opposite(sd.direction, imbalance_data[1])
            fired == r.result # << >>
                     /\ r.result[1].exit_reason = "IMBALANCE_REVERSED"
        IN
        /\ partial_close_cache' = [partial_close_cache EXCEPT ![t] = r.pcc]
        /\ reversal_counters' = [reversal_counters EXCEPT ![t] = r.rc]
        /\ exit_signals' = [exit_signals EXCEPT ![t] = exits]
        /\ todo' = [todo EXCEPT ![t] = Tail(@)]
        /\ pc' = [pc EXCEPT ![t] =
                    IF Tail(todo[t]) # << >> THEN "scan"
                    ELSE IF exits = << >> THEN "idle" ELSE "close"]
        /\ obs' = [sample |-> IF evaluated THEN "evaluated" ELSE "skipped",
                     tracker |-> t,
                     id |-> s,
                     absent |-> imbalance_data = << >> \/ price_data = << >>,
                     opposite |-> imbalance_data # << >>
                                  /\ Opposite(sd.direction, imbalance_data[1]),
                     hold_time |-> hold_time,
                     count |-> CountOf(reversal_counters[t], s),
                     status |-> PartialOf(partial_close_cache[t], sd).status,
                     at_exit_level |->
                         evaluated
                         /\ AtExitLevel(PartialOf(partial_close_cache[t], sd),
                                        sd, price_data[1]),
                     reason |-> IF r.result = << >> THEN "NONE"
                                ELSE r.result[1].exit_reason,
                     stale |-> fired /\ FlagOf(missed[t], s),
                     after_error |-> obs.sample = "raised"]
        /\ missed' = [missed EXCEPT ![t] =
                    Put(@, s, MissedAfter(FlagOf(@, s), evaluated, reversed,
                                          CountOf(reversal_counters[t], s),
                                          CountOf(r.rc, s)))]
    /\ UNCHANGED <<now, signals, trades, running, open_signals_cache, row,
                   session, batch>>
    /\ UNCHANGED outsideFast

\* check_signal_hybrid(signal_data) raises while it reads the snapshot, as
\* float(price_data.get('mid', 0)) does on a malformed mid: nothing was
\* changed yet, its except clause logs and returns None, and the for loop
\* of fast_signal_tracking_loop goes to the next item.  The variant is the
\* loop without the two handlers: the error ends the scan of this tick.
CheckRaises_EndsTick(t) ==
    /\ t \in running
    /\ pc[t] = "scan"
    /\ todo' = [todo EXCEPT ![t] = << >>]
    /\ pc' = [pc EXCEPT ![t] = "idle"]
    /\ obs' = [sample |-> "raised", tracker |-> t, id |-> Head(todo[t])]
    /\ UNCHANGED <<now, signals, trades, running, open_signals_cache,
                   partial_close_cache, reversal_counters, exit_signals, row,
                   session, batch, missed>>
    /\ UNCHANGED outsideFast

CheckRaises(t) ==
    /\ t \in running
    /\ pc[t] = "scan"
    /\ todo' = [todo EXCEPT ![t] = Tail(@)]
    /\ pc' = [pc EXCEPT ![t] =
                IF Tail(todo[t]) # << >> THEN "scan"
                ELSE IF exit_signals[t] = << >> THEN "idle" ELSE "close"]
    /\ obs' = [sample |-> "raised", tracker |-> t, id |-> Head(todo[t])]
    /\ UNCHANGED <<now, signals, trades, running, open_signals_cache,
                   partial_close_cache, reversal_counters, exit_signals, row,
                   session, batch, missed>>
    /\ UNCHANGED outsideFast

\* close_signals_batch handles the next row of exit_signals inside its store
\* session: the query (which may raise, ending the batch with a rollback),
\* then the assignments, the Trade and the evictions of an OPEN row.
CloseRow(t) ==
    /\ t \in running
    /\ pc[t] = "close"
    /\ obs' = NoObs
    /\ \E ok \in BOOLEAN :
        LET e == exit_signals[t][row[t] + 1]
            id == e.signal_id
            sd == open_signals_cache[t]
            entry_price == IF id \in DOMAIN sd THEN sd[id].entry_price
                           ELSE signals[id].entry_price
            last == row[t] + 1 = Len(exit_signals[t])
        IN
        IF ~ok
        THEN /\ session' = [session EXCEPT ![t] = NoSession]
             /\ batch' = [batch EXCEPT ![t] = "failed"]
             /\ pc' = [pc EXCEPT ![t] = "resync"]
             /\ UNCHANGED <<row, open_signals_cache, partial_close_cache>>
        ELSE /\ row' = [row EXCEPT ![t] = @ + 1]
             /\ pc' = [pc EXCEPT ![t] = IF last THEN "commit" ELSE "close"]
             /\ UNCHANGED batch
             /\ IF ~RowIsOpen(id)
                THEN UNCHANGED <<session, open_signals_cache,
                                 partial_close_cache>>
                ELSE /\ session' =
                          [session EXCEPT
                             ![t].dirty = Put(@, id, RowChanges(e)),
                             ![t].new = @ \o RowTrades(e, entry_price)]
                     /\ open_signals_cache' =
                          [open_signals_cache EXCEPT
                             ![t] = IF RowEvicts(e) THEN Del(@, id) ELSE @]
                     /\ partial_close_cache' =
                          [partial_close_cache EXCEPT
                             ![t] = IF RowEvicts(e) THEN Del(@, id) ELSE @]
    /\ UNCHANGED <<now, signals, trades, running, reversal_counters, todo,
                   exit_signals, missed>>
    /\ UNCHANGED outsideFast

\* session.commit(): every pending change reaches the store, or the commit
\* raises and the session is rolled back.
Commit(t) ==
    /\ t \in running
    /\ pc[t] = "commit"
    /\ \E ok \in BOOLEAN :
        IF ok
        THEN /\ signals' = Flushed(session[t].dirty)
             /\ trades' = trades \o session[t].new
             /\ batch' = [batch EXCEPT ![t] = "committed"]
        ELSE /\ batch' = [batch EXCEPT ![t] = "failed"]
             /\ UNCHANGED <<signals, trades>>
    /\ session' = [session EXCEPT ![t] = NoSession]
    /\ pc' = [pc EXCEPT ![t] = "resync"]
    /\ obs' = NoObs
    /\ UNCHANGED <<now, running, open_signals_cache, partial_close_cache,
                   reversal_counters, todo, exit_signals, row, missed>>
    /\ UNCHANGED outsideFast

\* The sync right after close_signals_batch (the store may fail, which
\* leaves the maps as they are); the iteration ends and its locals die.
Resync(t) ==
    /\ t \in running
    /\ pc[t] = "resync"
    /\ \E synced \in BOOLEAN :
        /\ open_signals_cache' =
              [open_signals_cache EXCEPT
                  ![t] = IF synced THEN SyncedCache ELSE @]
        /\ partial_close_cache' =
              [partial_close_cache EXCEPT
                  ![t] = IF synced THEN SyncedPartial ELSE @]
        /\ reversal_counters' =
              [reversal_counters EXCEPT
                  ![t] = IF synced THEN SyncedCounters(@) ELSE @]
        /\ missed' =
              [missed EXCEPT ![t] = IF synced THEN Restrict(@, OpenIds) ELSE @]
        /\ obs' = SyncObs(t, synced)
    /\ pc' = [pc EXCEPT ![t] = "idle"]
    /\ exit_signals' = [exit_signals EXCEPT ![t] = << >>]
    /\ row' = [row EXCEPT ![t] = 0]
    /\ batch' = [batch EXCEPT ![t] = "none"]
    /\ UNCHANGED <<now, signals, trades, running, todo, session>>
    /\ UNCHANGED outsideFast

\* ------------------------------------------------------------------------
\* Specifications
\* ------------------------------------------------------------------------
InitWith(procs) ==
    /\ now = 0
    /\ signals = EmptyDict
    /\ trades = << >>
    /\ running = procs
    /\ open_signals_cache = [t \in Trackers |-> EmptyDict]
    /\ partial_close_cache = [t \in Trackers |-> EmptyDict]
    /\ reversal_counters = [t \in Trackers |-> EmptyDict]
    /\ pc = [t \in Trackers |-> "idle"]
    /\ todo = [t \in Trackers |-> << >>]
    /\ exit_signals = [t \in Trackers |-> << >>]
    /\ row = [t \in Trackers |-> 0]
    /\ session = [t \in Trackers |-> NoSession]
    /\ batch = [t \in Trackers |-> "none"]
    /\ obs = NoObs
    /\ missed = [t \in Trackers |-> EmptyDict]
    /\ confirmation_counters = EmptyDict
    /\ ec_call = NoCall
    /\ ec_streak = [symbol \in Symbols |-> 0]
    /\ telegram_sent = {}
    /\ pl_eval = NoEval
    /\ pl_streak = [symbol \in Symbols |-> 0]
    /\ flow_trades = [symbol \in ActiveSymbols |-> << >>]
    /\ trade_sizes = [symbol \in ActiveSymbols |-> << >>]
    /\ wall_clock = 0
    /\ tf_call = NoFlowCall
    /\ redis_available = FALSE
    /\ client_data = EmptyDict
    /\ fallback_cache = EmptyDict
    /\ rm_now = 0
    /\ rm_last_set = EmptyDict
    /\ rm_call = [op |-> "none"]
    /\ rl_now = 0
    /\ requests = << >>
    /\ current_weight = 0
    /\ server_weight = NULL
    /\ all_streams = {}
    /\ ws_connected = FALSE
    /\ snapshot_keys = {}
    /\ pending = NULL
    /\ scanner_running = TRUE
    /\ loop_pc = [l \in Loops |-> "start"]

TrackerStep ==
    \E t \in Trackers :
        \/ TickStart(t)
        \/ Check(t)
        \/ CloseRow(t)
        \/ Commit(t)
        \/ Resync(t)

Emit == \E s \in SignalIds, setup \in Setups : CreateSignal(s, setup)

\* The bot as it is run: one process, one tracker loop.
Init == InitWith({1})

Next == Emit \/ AdvanceClock \/ TrackerStep

Spec == Init /\ [][Next]_vars

\* The tracker loop as the event loop schedules it: an iteration that has
\* begun goes on to its end and the next one follows (every await of the
\* loop returns), and the periodic sync, due every CACHE_SYNC_INTERVAL,
\* keeps coming and goes through again and again.  The clock is not
\* followed.
NextTick == Emit \/ TrackerStep

SpecTick ==
    /\ Init
    /\ [][NextTick]_vars
    /\ WF_vars(TrackerStep)
    /\ SF_vars(TickStart(1) /\ obs'.synced)

\* Two bot processes on one store, during the hold-time window of the
\* signal (the clock is not followed past it).
InitRace == InitWith(Trackers)

NextRace == Emit \/ TrackerStep

SpecRace == InitRace /\ [][NextRace]_vars

\* One tracker loop with up to two open signals in its map, within the hold
\* time of both: a tick scans several items, a check may raise, and a batch
\* may hold several closures.
LoopSignalIds == {1, 2}

EmitLoop == \E s \in LoopSignalIds, setup \in Setups : CreateSignal(s, setup)

LoopStep ==
    \/ TickStart(1)
    \/ Check(1)
    \/ CheckRaises(1)
    \/ CloseRow(1)
    \/ Commit(1)
    \/ Resync(1)

NextLoop == EmitLoop \/ LoopStep

SpecLoop == Init /\ [][NextLoop]_vars

\* The entry confirmation tracker under any sequence of calls.
InitEntry == InitWith({})

CheckStep ==
    \E symbol \in Symbols, all_conditions_met \in BOOLEAN :
        CheckAndUpdateCall(symbol, all_conditions_met)

ResetStep == \E symbol \in Symbols : ResetCounter(symbol)

CleanupStep ==
    \E active_symbols \in SUBSET Symbols :
        CleanupInactiveSymbols(active_symbols)

NextEntry == CheckStep \/ ResetStep \/ CleanupStep

SpecEntry == InitEntry /\ [][NextEntry]_vars

\* The signal generation loop: every round evaluates the active symbols.
InitPipeline == InitWith({})

NextPipeline == \E symbol \in ActiveSymbols : CheckAndGenerateSignal(symbol)

SpecPipeline == InitPipeline /\ [][NextPipeline]_vars

\* The emission path over two instruments and two signals.
NextRisk ==
    \E symbol \in Symbols :
        CheckAndGenerateSignalWith(RiskSignalIds, symbol, RiskImbalanceValues,
                                   RiskLevelSets)

SpecRisk == InitPipeline /\ [][NextRisk]_vars

\* The trade stream of the active instruments and the analyzer's calls.
InitFlow == InitWith({})

AddTradeStep == \E symbol \in ActiveSymbols, trade \in TradeInputs : AddTradeCall(symbol, trade)

AnalyzeStep == \E symbol \in ActiveSymbols : AnalyzeTradeFlowCall(symbol)

ClearStep == \E symbol \in ActiveSymbols : ClearOldTradesCall(symbol)

NextFlow == AddTradeStep \/ AnalyzeStep \/ ClearStep \/ WallClockAdvance

SpecFlow == InitFlow /\ [][NextFlow]_vars

\* The data collector on the combined stream.  The server sends messages
\* of the subscribed streams only; while the socket is connected and
\* delivering, a well-formed message of every subscribed stream keeps
\* arriving, and a closed socket is reconnected.
Delivers(symbol, feed) == ProcessCombinedMessage(symbol, feed, TRUE)

NextStream ==
    \/ CollectAllSymbolsCombined
    \/ WsConnect
    \/ WsClosed
    \/ \E symbol \in Symbols, feed \in Feeds, well_formed \in BOOLEAN :
          ProcessCombinedMessage(symbol, feed, well_formed)

SpecStream ==
    /\ InitWith({})
    /\ [][NextStream]_vars
    /\ WF_vars(CollectAllSymbolsCombined)
    /\ WF_vars(WsConnect)
    /\ \A symbol \in Symbols, feed \in Feeds : SF_vars(Delivers(symbol, feed))

\* The rate limiter under the requests of BinanceClient._make_request.
NextLimiter ==
    \/ AddRequest(ticker_weight)
    \/ \E reported \in ServerWeights : CorrectFromHeaders(reported)
    \/ LimiterClock

SpecLimiter == InitWith({}) /\ [][NextLimiter]_vars

\* ------------------------------------------------------------------------
\* BinanceFuturesScanner.run: the gathered loops and shutdown
\* ------------------------------------------------------------------------
\* A loop is at "start" when it is about to test its `while self.running`,
\* in "body" while it sleeps and works (the collector: while it reads its
\* WebSocket), and "exited" once the test failed.  The fast tracker is in
\* "batch" from the moment its iteration has found signals to close until
\* close_signals_batch has committed or rolled back and the sync after it
\* has run.  While a request spins in the admission loop of the REST
\* client, which has no await, the event loop runs nothing else.
FastLoop == "fast_signal_tracking_loop"

\* shutdown(): self.running = False, and stop_collecting() clears the
\* collector's flag before the first await that yields.
Shutdown ==
    /\ scanner_running
    /\ pending = NULL
    /\ scanner_running' = FALSE
    /\ UNCHANGED loop_pc
    /\ UNCHANGED outsideShutdown

\* `while self.running:` holds and the body begins.
LoopEnter(l) ==
    /\ loop_pc[l] = "start"
    /\ scanner_running
    /\ pending = NULL
    /\ loop_pc' = [loop_pc EXCEPT ![l] = "body"]
    /\ UNCHANGED scanner_running
    /\ UNCHANGED outsideShutdown

\* The iteration of the fast tracker has collected exit signals and calls
\* close_signals_batch.
CloseSignalsBatch ==
    /\ loop_pc[FastLoop] = "body"
    /\ pending = NULL
    /\ loop_pc' = [loop_pc EXCEPT ![FastLoop] = "batch"]
    /\ UNCHANGED scanner_running
    /\ UNCHANGED outsideShutdown

\* The body ends and the loop is back at its test: the sleep and the work
\* are over or an exception was caught; for the fast tracker, the batch (if
\* any) was committed or rolled back; for the collector, the message loop
\* was left (a message seen with the flag cleared, ERROR, CLOSED, an
\* exception) and the sessions are closed.
LoopBodyDone(l) ==
    /\ loop_pc[l] \in {"body", "batch"}
    /\ pending = NULL
    /\ loop_pc' = [loop_pc EXCEPT ![l] = "start"]
    /\ UNCHANGED scanner_running
    /\ UNCHANGED outsideShutdown

\* `while self.running:` fails and the loop returns.
LoopExit(l) ==
    /\ loop_pc[l] = "start"
    /\ ~scanner_running
    /\ pending = NULL
    /\ loop_pc' = [loop_pc EXCEPT ![l] = "exited"]
    /\ UNCHANGED scanner_running
    /\ UNCHANGED outsideShutdown

\* universe_selector.scan_universe in the body of the rescan loop: REST
\* requests through _make_request and the headers of their responses.
ScanUniverse ==
    /\ loop_pc["universe_scan_loop"] = "body"
    /\ \/ \E weight \in RequestWeights : MakeRequest(weight)
       \/ Retry
       \/ /\ pending = NULL
          /\ requests # << >>
          /\ \E reported \in ServerWeights : CorrectFromHeaders(reported)

NextShutdown ==
    \/ Shutdown
    \/ \E l \in Loops : LoopEnter(l)
    \/ CloseSignalsBatch
    \/ \E l \in Loops : LoopBodyDone(l)
    \/ \E l \in Loops : LoopExit(l)
    \/ ScanUniverse

\* Every loop takes its next step when the event loop is free (sleeps and
\* I/O are finite, the WebSocket delivers or closes), and the admission
\* loop takes its next turn.
SpecShutdown ==
    /\ Init
    /\ [][NextShutdown]_vars
    /\ WF_vars(Retry)
    /\ \A l \in Loops : WF_vars(LoopBodyDone(l)) /\ WF_vars(LoopExit(l))

\* The rate limiter under _make_request's admission loop.  Responses (and
\* their headers) are handled, and the clock is read by others, only while
\* no request is in the loop; the loop itself always takes its next turn.
NextAdmit ==
    \/ \E weight \in RequestWeights : MakeRequest(weight)
    \/ Retry
    \/ pending = NULL /\ \E reported \in ServerWeights : CorrectFromHeaders(reported)
    \/ pending = NULL /\ LimiterClock

SpecAdmit == InitWith({}) /\ [][NextAdmit]_vars /\ WF_vars(Retry)

\* The snapshot cache manager under the writes of the data collector and
\* the reads of its consumers.
NextCache ==
    \/ Connect
    \/ \E key \in SnapshotKeys, value \in SnapshotValues :
          Set(key, value, price_expiry)
    \/ \E key \in SnapshotKeys : Get(key)
    \/ CacheTick

SpecCache == InitWith({}) /\ [][NextCache]_vars


\* ------------------------------------------------------------------------
\* Properties
\* ------------------------------------------------------------------------
\* The partial-close statuses in the order of the lifecycle.
Rank(status) ==
    IF status = "NONE" THEN 0 ELSE IF status = "TP1_CLOSED" THEN 1 ELSE 2

\* The Trade records of a signal.
TradesOf(s) == {i \in DOMAIN trades : trades[i].signal_id = s}

\* C1: in every step, the partial_close_status of every store record either
\* stays what it is or moves to the next value of NONE, TP1_CLOSED,
\* FULLY_CLOSED: it never goes back and never skips TP1_CLOSED.
C1_StatusSequence ==
    [][\A s \in DOMAIN signals :
          LET before == Rank(signals[s].partial_close_status)
              after == Rank(signals'[s].partial_close_status)
          IN  after = before \/ after = before + 1]_vars

\* C2: whenever the partial-close status of a signal is TP1_CLOSED, in the
\* store record or in a tracker's partial-close state, the current stop is
\* the entry price and breakeven_moved is true.
C2_BreakevenAfterTp1 ==
    /\ \A s \in DOMAIN signals :
          signals[s].partial_close_status = "TP1_CLOSED"
              => /\ signals[s].current_stop_loss = signals[s].entry_price
                 /\ signals[s].breakeven_moved
    /\ \A t \in Trackers : \A s \in DOMAIN partial_close_cache[t] :
          partial_close_cache[t][s].status = "TP1_CLOSED"
              => /\ partial_close_cache[t][s].current_sl
                        = signals[s].entry_price
                 /\ partial_close_cache[t][s].breakeven_moved

\* C2 witness: a TP1 partial fill is committed and a resync has loaded it.
C2_Witness ==
    \E s \in DOMAIN signals :
        /\ signals[s].partial_close_status = "TP1_CLOSED"
        /\ pc[1] = "idle"
        /\ s \in DOMAIN partial_close_cache[1]
        /\ partial_close_cache[1][s] = PartialFromRow(s)
        /\ partial_close_cache[1][s].status = "TP1_CLOSED"

\* The number of Trade records of signal s in a trades table.
TradeCount(table, s) ==
    Cardinality({i \in DOMAIN table : table[i].signal_id = s})

\* C3: close_signals_batch stages changes for a record only if the record
\* is OPEN when the batch reads it; the row of a record that is CLOSED when
\* read is skipped with nothing staged, nothing evicted and the store
\* untouched; a record changes only by the commit of a batch that read it
\* OPEN; and a CLOSED record never becomes OPEN again.
C3_ClosedRowIsNoOp ==
    [][/\ \A t \in Trackers :
            /\ (/\ pc[t] = "close"
                /\ row'[t] = row[t] + 1
                /\ signals[exit_signals[t][row[t] + 1].signal_id].status
                       = "CLOSED")
               => /\ session'[t] = session[t]
                  /\ open_signals_cache'[t] = open_signals_cache[t]
                  /\ partial_close_cache'[t] = partial_close_cache[t]
                  /\ signals' = signals
                  /\ trades' = trades
            /\ \A s \in DOMAIN session'[t].dirty :
                  s \notin DOMAIN session[t].dirty
                      => signals[s].status = "OPEN"
       /\ \A s \in DOMAIN signals :
            /\ signals'[s] # signals[s]
                  => \E t \in Trackers :
                        pc[t] = "commit" /\ s \in DOMAIN session[t].dirty
            /\ signals[s].status = "CLOSED" => signals'[s].status = "CLOSED"
      ]_vars

\* C3 witness: a batch met the row of a signal that another closer had
\* already closed, skipped it, and stands before its commit with nothing
\* staged.
C3_Witness ==
    \E t \in Trackers :
        /\ pc[t] = "commit"
        /\ row[t] = Len(exit_signals[t])
        /\ row[t] > 0
        /\ session[t] = NoSession
        /\ \A i \in DOMAIN exit_signals[t] :
              signals[exit_signals[t][i].signal_id].status = "CLOSED"
        /\ trades # << >>

\* C4: when two closers work on the same OPEN signal, only one closure is
\* performed: a step adds a Trade record for a signal only if the signal is
\* OPEN in the store before the step, and then it adds exactly one and the
\* signal is CLOSED after it.
C4_OneCloserWins ==
    [][\A s \in DOMAIN signals :
          TradeCount(trades', s) # TradeCount(trades, s)
              => /\ signals[s].status = "OPEN"
                 /\ signals'[s].status = "CLOSED"
                 /\ TradeCount(trades', s) = 1]_vars

\* C5: in every store state each signal has at most one Trade record, and
\* it has one exactly when its status is CLOSED (so a signal that is still
\* OPEN after its TP1 partial fill has none).
C5_TradeIffClosed ==
    \A s \in DOMAIN signals :
        /\ Cardinality(TradesOf(s)) <= 1
        /\ TradesOf(s) # {} <=> signals[s].status = "CLOSED"

\* The rule the priority order TP2, TP1, stop, sustained reversal selects
\* for a sample, written from the conditions of the rules.
FirstInOrder(status, direction, price, sl, tp1, tp2, hold, imbalance, count) ==
    LET long == direction = "LONG"
        tp2_hit == /\ status = "TP1_CLOSED"
                   /\ IF long THEN price >= tp2 ELSE price <= tp2
        tp1_hit == /\ status = "NONE"
                   /\ IF long THEN price >= tp1 ELSE price <= tp1
        stop_hit == IF long THEN price <= sl ELSE price >= sl
        sustained == /\ hold >= MIN_HOLD_TIME_SECONDS
                     /\ Opposite(direction, imbalance)
                     /\ count + 1 >= IMBALANCE_REVERSAL_PERSISTENCE_SAMPLES
    IN  CASE tp2_hit -> "TAKE_PROFIT_2"
          [] ~tp2_hit /\ tp1_hit -> "TAKE_PROFIT_1_PARTIAL"
          [] ~tp2_hit /\ ~tp1_hit /\ stop_hit ->
                IF status = "TP1_CLOSED" THEN "STOP_LOSS_BREAKEVEN"
                ELSE "STOP_LOSS"
          [] ~tp2_hit /\ ~tp1_hit /\ ~stop_hit /\ sustained ->
                "IMBALANCE_REVERSED"
          [] OTHER -> "NONE"

C7_AfterCommittedBatch ==
    \A t \in running :
        pc[t] = "resync" /\ batch[t] = "committed" =>
            \A i \in DOMAIN exit_signals[t] :
                LET e == exit_signals[t][i]
                IN  IF e.exit_reason = "TAKE_PROFIT_1_PARTIAL"
                    THEN /\ signals[e.signal_id].status = "OPEN"
                         /\ e.signal_id \in DOMAIN open_signals_cache[t]
                    ELSE /\ signals[e.signal_id].status = "CLOSED"
                         /\ e.signal_id \notin DOMAIN open_signals_cache[t]

\* C7 witness: a batch that carried a TP1 partial decision has committed.
C7_Witness ==
    \E t \in running :
        /\ pc[t] = "resync"
        /\ batch[t] = "committed"
        /\ \E i \in DOMAIN exit_signals[t] :
              /\ exit_signals[t][i].exit_reason = "TAKE_PROFIT_1_PARTIAL"
              /\ signals[exit_signals[t][i].signal_id].partial_close_status
                     = "TP1_CLOSED"

\* C8: a check that finds the price or the imbalance absent returns no
\* decision and leaves the reversal counters, the partial-close states, the
\* collected decisions and the store as they were.
C8_AbsentDataSkips ==
    [][(obs'.sample # "none" /\ obs'.absent)
          => /\ obs'.reason = "NONE"
             /\ reversal_counters' = reversal_counters
             /\ partial_close_cache' = partial_close_cache
             /\ exit_signals' = exit_signals
             /\ signals' = signals
             /\ trades' = trades]_vars

\* C8 witness: a check was skipped for absent data while the signal had a
\* running reversal counter and a partial fill, and both are still there.
C8_Witness ==
    /\ obs.sample = "skipped"
    /\ obs.absent
    /\ obs.count > 0
    /\ obs.status = "TP1_CLOSED"
    /\ CountOf(reversal_counters[obs.tracker], obs.id) = obs.count
    /\ partial_close_cache[obs.tracker][obs.id].status = "TP1_CLOSED"

\* C9: a check at a hold time below 30 s returns no IMBALANCE_REVERSED and
\* does not raise the reversal counter; a check at a hold time of exactly
\* 30 s of a reversed sample that no price rule takes counts the sample
\* (the counter is one higher, or the exit fires at the threshold).
C9_MinHoldGate ==
    [][/\ (obs'.sample # "none" /\ obs'.hold_time < MIN_HOLD_TIME_SECONDS)
            => /\ obs'.reason # "IMBALANCE_REVERSED"
               /\ CountOf(reversal_counters'[obs'.tracker], obs'.id)
                      <= obs'.count
       /\ (/\ obs'.sample = "evaluated"
           /\ obs'.hold_time = MIN_HOLD_TIME_SECONDS
           /\ obs'.opposite
           /\ obs'.reason \in {"NONE", "IMBALANCE_REVERSED"})
            => IF obs'.count + 1 >= IMBALANCE_REVERSAL_PERSISTENCE_SAMPLES
               THEN obs'.reason = "IMBALANCE_REVERSED"
               ELSE /\ obs'.reason = "NONE"
                    /\ CountOf(reversal_counters'[obs'.tracker], obs'.id)
                           = obs'.count + 1
      ]_vars

\* C9 witness: a reversed sample checked at a hold time of exactly 30 s was
\* counted.
C9_Witness ==
    /\ obs.sample = "evaluated"
    /\ obs.hold_time = MIN_HOLD_TIME_SECONDS
    /\ obs.opposite
    /\ obs.reason = "NONE"
    /\ CountOf(reversal_counters[obs.tracker], obs.id) = obs.count + 1

\* C10: an IMBALANCE_REVERSED decision is returned only when every one of
\* the 75 latest evaluated samples of the signal was reversed, and after a
\* check of an evaluated sample that is not reversed and leaves the signal
\* tracked (no decision, or the TP1 partial) the signal's reversal counter
\* is zero.
C10_SustainedReversal ==
    /\ (obs.sample = "evaluated" /\ obs.reason = "IMBALANCE_REVERSED")
          => ~obs.stale
    /\ (/\ obs.sample = "evaluated"
        /\ ~obs.opposite
        /\ obs.reason \in {"NONE", "TAKE_PROFIT_1_PARTIAL"})
          => CountOf(reversal_counters[obs.tracker], obs.id) = 0

\* C11 as stated: after a call of check_and_update whose conditions all
\* hold the counter is one more than before the call, and after a call with
\* a failing condition it is 0.
C11_CounterStepAsStated ==
    ec_call.op = "check_and_update" =>
        LET after == GetCounter(confirmation_counters, ec_call.symbol)
        IN  IF ec_call.all_conditions_met THEN after = ec_call.before + 1
            ELSE after = 0

\* C11 (amended): after a call of check_and_update whose conditions all
\* hold the counter is one more than before the call, unless that makes it
\* reach the threshold of 50, in which case the call returns true and the
\* counter is 0; after a call with a failing condition the counter is 0.
C11_CounterStep ==
    ec_call.op = "check_and_update" =>
        LET after == GetCounter(confirmation_counters, ec_call.symbol)
            reached == ec_call.before + 1 >= SIGNAL_ENTRY_PERSISTENCE_SAMPLES
        IN  /\ (ec_call.all_conditions_met /\ ~reached)
                  => after = ec_call.before + 1 /\ ~ec_call.result
            /\ (ec_call.all_conditions_met /\ reached)
                  => after = 0 /\ ec_call.result
            /\ ~ec_call.all_conditions_met => after = 0 /\ ~ec_call.result

\* C11 witness: a holding call found the counter at 49, returned true and
\* left the counter at 0.
C11_Witness ==
    /\ ec_call.op = "check_and_update"
    /\ ec_call.all_conditions_met
    /\ ec_call.before = SIGNAL_ENTRY_PERSISTENCE_SAMPLES - 1
    /\ ec_call.result
    /\ confirmation_counters[ec_call.symbol] = 0

\* C12: check_and_update returns true exactly on the call that completes
\* 50 all-conditions-met calls in a row for the instrument since its last
\* miss or last proposal, and the counter is 0 after that call; a failing
\* call after 49 holding calls returns false and leaves the counter 0, and
\* a holding call right after a miss or a proposal sets the counter to 1.
C12_ProposalAtFifty ==
    ec_call.op = "check_and_update" =>
        LET after == GetCounter(confirmation_counters, ec_call.symbol)
        IN  /\ ec_call.result
                  <=> /\ ec_call.all_conditions_met
                      /\ ec_call.streak + 1 = SIGNAL_ENTRY_PERSISTENCE_SAMPLES
            /\ ec_call.result => after = 0
            /\ (/\ ~ec_call.all_conditions_met
                /\ ec_call.streak = SIGNAL_ENTRY_PERSISTENCE_SAMPLES - 1)
                  => ~ec_call.result /\ after = 0
            /\ (ec_call.all_conditions_met /\ ec_call.streak = 0) => after = 1

\* C12 witness: the 50th holding call in a row returned true.
C12_Witness ==
    /\ ec_call.op = "check_and_update"
    /\ ec_call.result
    /\ ec_call.streak = SIGNAL_ENTRY_PERSISTENCE_SAMPLES - 1
    /\ GetCounter(confirmation_counters, ec_call.symbol) = 0

\* C13: the running pipeline persists or notifies a new signal for an
\* instrument only after the full confluence of preconditions held on 50
\* consecutive evaluations of that instrument; one evaluation in which the
\* confluence holds never emits a signal by itself.
C13_EmitsAfterFiftySamples ==
    (pl_eval.op = "evaluate" /\ (pl_eval.persisted \/ pl_eval.notified))
        => pl_streak[pl_eval.symbol] >= SIGNAL_ENTRY_PERSISTENCE_SAMPLES

\* C19: every signal persisted with status OPEN has stop < entry < TP1 <= TP2
\* when it is LONG and TP2 <= TP1 < entry < stop when it is SHORT.
C19_LevelsOrdered ==
    \A id \in DOMAIN signals :
        signals[id].status = "OPEN" =>
            IF signals[id].direction = "LONG"
            THEN /\ signals[id].stop_loss < signals[id].entry_price
                 /\ signals[id].entry_price < signals[id].take_profit_1
                 /\ signals[id].take_profit_1 <= signals[id].take_profit_2
            ELSE /\ signals[id].take_profit_2 <= signals[id].take_profit_1
                 /\ signals[id].take_profit_1 < signals[id].entry_price
                 /\ signals[id].entry_price < signals[id].stop_loss

\* A SHORT signal was persisted by the pipeline, its second target taken
\* from the first target's reward because there is one level ahead only.
C19_Witness ==
    /\ pl_eval.op = "evaluate"
    /\ pl_eval.persisted
    /\ \E id \in DOMAIN signals :
        /\ signals[id].status = "OPEN"
        /\ signals[id].direction = "SHORT"
        /\ signals[id].take_profit_1 = 98100
        /\ signals[id].take_profit_2 = 97150

\* C20 as stated: a proposal whose |imbalance| is exactly 0.15 is rejected by
\* the entry gate and by the validator, and one whose |imbalance| is
\* 0.1500001 is accepted on the imbalance criterion.
C20_ExactThresholdRejected ==
    pl_eval.op = "evaluate" =>
        /\ AbsVal(pl_eval.imbalance) = ORDERBOOK_IMBALANCE_THRESHOLD
            => (~pl_eval.gate /\ pl_eval.weak)
        /\ AbsVal(pl_eval.imbalance) = ORDERBOOK_IMBALANCE_THRESHOLD + 1
            => (pl_eval.gate /\ ~pl_eval.weak)

\* C20: a proposal whose |imbalance| is exactly 0.15 is accepted on the
\* imbalance criterion by the entry gate and by the validator, as is one
\* whose |imbalance| is 0.1500001; one whose |imbalance| is 0.1499999 is
\* rejected by both.
C20_ThresholdAccepted ==
    pl_eval.op = "evaluate" =>
        /\ AbsVal(pl_eval.imbalance) >= ORDERBOOK_IMBALANCE_THRESHOLD
            => (pl_eval.gate /\ ~pl_eval.weak)
        /\ AbsVal(pl_eval.imbalance) < ORDERBOOK_IMBALANCE_THRESHOLD
            => (~pl_eval.gate /\ pl_eval.weak /\ ~pl_eval.proposed)

\* A proposal whose imbalance is exactly -0.15 passed the gate and the
\* validator and was persisted.
C20_Witness ==
    /\ pl_eval.op = "evaluate"
    /\ pl_eval.imbalance = 0 - ORDERBOOK_IMBALANCE_THRESHOLD
    /\ pl_eval.proposed
    /\ pl_eval.persisted

\* C14: after any sequence of add_trade, analyze_trade_flow and
\* clear_old_trades calls for an instrument, its trade sequence and its size
\* sequence have equal length and the size at index i is the notional of the
\* trade at index i.
C14_SequencesAligned ==
    \A symbol \in ActiveSymbols :
        /\ Len(flow_trades[symbol]) = Len(trade_sizes[symbol])
        /\ \A i \in 1..Len(flow_trades[symbol]) :
            trade_sizes[symbol][i] = Notional(flow_trades[symbol][i])

\* C15: a trade leaves the window of its instrument only when a newer trade
\* of the instrument arrives; while none arrives the window does not change
\* as the wall clock advances, whichever operation runs.
C15_PrunedByEventTime ==
    [][tf_call'.op # "add_trade"
        => (flow_trades' = flow_trades /\ trade_sizes' = trade_sizes)]_vars

\* C16: a trade with a non-numeric price or quantity, or with quantity zero,
\* passed to add_trade is not appended: apart from pruning, the trades and
\* sizes of the window are the same after the call as before it.
C16_MalformedNotAppended ==
    [][(/\ tf_call'.op = "add_trade"
        /\ IsNumber(tf_call'.trade.T)
        /\ \/ ~IsNumber(tf_call'.trade.p)
           \/ ~IsNumber(tf_call'.trade.q)
           \/ tf_call'.trade.q = 0)
        => LET symbol == tf_call'.symbol
               ts == flow_trades[symbol]
               ss == trade_sizes[symbol]
               kept == IF PruneRaises(ts, ss, tf_call'.trade.T)
                       THEN [trades |-> ts, trade_sizes |-> ss]
                       ELSE Valid(ts, ss, tf_call'.trade.T)
           IN  /\ flow_trades'[symbol] = kept.trades
               /\ trade_sizes'[symbol] = kept.trade_sizes]_vars

\* C17: a malformed trade never disables the window of its instrument: every
\* later well-formed trade is appended by add_trade, and analyze_trade_flow
\* returns statistics over the well-formed trades inside the window, not the
\* all-zero result.
C17_WindowStaysUsable ==
    [][/\ (tf_call'.op = "add_trade" /\ tf_call'.trade \in WellFormedTrades)
            => LET ts == flow_trades'[tf_call'.symbol]
               IN  ts # << >> /\ ts[Len(ts)] = tf_call'.trade
       /\ tf_call'.op = "analyze_trade_flow"
            => LET ts == flow_trades[tf_call'.symbol]
                   inside == {i \in 1..Len(ts) :
                                /\ ts[i] \in WellFormedTrades
                                /\ InWindow(wall_clock, ts[i])}
               IN  inside # {} =>
                     /\ tf_call'.result.trade_count >= Cardinality(inside)
                     /\ tf_call'.result.total_volume = SumOver(ts, inside)]_vars

\* C18: for every window content the dynamic_threshold reported in the
\* trade-flow summary (the threshold the trades were classified with) is
\* greater than or equal to the configured floor.
C18_ThresholdAtLeastFloor ==
    tf_call.op = "analyze_trade_flow"
        => tf_call.result.dynamic_threshold >= MIN_LARGE_TRADE_SIZE * 100

\* C21: a proposal is rejected when the distance of its TP1 from the entry
\* is below 0.50 % of the entry: every proposal that gets through to the
\* store has a TP1 at least 0.50 % away.
C21_Tp1DistanceFloor ==
    \A id \in DOMAIN signals :
        ~PctBelow(AbsVal(signals[id].take_profit_1 - signals[id].entry_price),
                  signals[id].entry_price, MIN_TP_DISTANCE_PCT)

\* C22: if sending the creation notification fails, the signal is still
\* persisted with status OPEN and without a notification id, provided the
\* risk manager approved it and the store commit succeeds.
C22_NotifierFailureKeepsRecord ==
    (/\ pl_eval.op = "evaluate"
     /\ pl_eval.proposed
     /\ pl_eval.can_send
     /\ pl_eval.saved
     /\ ~pl_eval.notified)
        => /\ pl_eval.persisted
           /\ \E id \in DOMAIN signals :
                /\ id \notin telegram_sent
                /\ signals[id].status = "OPEN"
                /\ signals[id].telegram_message_id = NULL

\* An approved proposal whose message failed was persisted.
C22_Witness ==
    /\ pl_eval.op = "evaluate"
    /\ pl_eval.proposed
    /\ pl_eval.can_send
    /\ ~pl_eval.notified
    /\ pl_eval.persisted
    /\ telegram_sent = {}
    /\ \E id \in DOMAIN signals : signals[id].telegram_message_id = NULL

\* C29: when kline_15m:<I> is absent from the snapshot cache, the evaluation
\* of the instrument is skipped: no signal is proposed, sent or persisted
\* on that evaluation.
C29_AbsentCandleSkips ==
    (pl_eval.op = "evaluate" /\ pl_eval.kline_15m = "absent")
        => (~pl_eval.proposed /\ ~pl_eval.notified /\ ~pl_eval.persisted)

\* C23: an error while one signal is evaluated or while the batch is closed
\* does not end the tracker loop.  A check that raises takes its item off
\* the scan and leaves every other item of the tick queued, the scan is left
\* only when no item remains, a batch that failed is followed by the resync
\* that ends the iteration, and the tracker keeps running.
C23_LoopSurvivesError ==
    [][ \A t \in running :
          /\ t \in running'
          /\ (pc[t] = "scan" /\ obs'.sample = "raised" /\ obs'.tracker = t)
                => /\ todo'[t] = Tail(todo[t])
                   /\ pc'[t] = IF Tail(todo[t]) # << >> THEN "scan"
                               ELSE IF exit_signals[t] = << >> THEN "idle"
                               ELSE "close"
                   /\ exit_signals'[t] = exit_signals[t]
          /\ (pc[t] = "scan" /\ pc'[t] # "scan") => todo'[t] = << >>
          /\ (batch[t] # "failed" /\ batch'[t] = "failed")
                => pc'[t] = "resync"
          /\ (pc[t] = "resync" /\ pc'[t] # "resync") => pc'[t] = "idle" ]_vars

\* C23 happens: right after a check raised, the next signal of the same
\* tick is evaluated.
C23_Witness ==
    /\ obs.sample = "evaluated"
    /\ obs.after_error
    /\ obs.id = 2

\* C24: the store updates of a closure batch are all-or-nothing.  Handling a
\* row of the batch writes nothing to the store; a batch that ends failed
\* leaves the signal rows and the Trade records as they were; a batch that
\* ends committed has, for every row of the batch whose signal was OPEN,
\* the assigned columns in the signal record and the Trade record of the
\* closure in the trades table.
C24_BatchAllOrNothing ==
    [][ \A t \in running :
          /\ row'[t] = row[t] + 1 => signals' = signals /\ trades' = trades
          /\ (batch[t] = "none" /\ batch'[t] = "failed")
                => signals' = signals /\ trades' = trades
          /\ (batch[t] = "none" /\ batch'[t] = "committed")
                => \A i \in DOMAIN exit_signals[t] :
                      LET e == exit_signals[t][i]
                          id == e.signal_id
                      IN  RowIsOpen(id) =>
                            /\ signals'[id] = Written(signals[id], RowChanges(e))
                            /\ TradeCount(trades', id) =
                                  TradeCount(trades, id)
                                    + Len(RowTrades(e, signals[id].entry_price))
      ]_vars

\* C24 happens: a batch of two closures has committed and both signals are
\* CLOSED in the store with one Trade record each.
C24_Witness ==
    \E t \in running :
        /\ pc[t] = "resync"
        /\ batch[t] = "committed"
        /\ Len(exit_signals[t]) = 2
        /\ \A i \in DOMAIN exit_signals[t] :
              /\ signals[exit_signals[t][i].signal_id].status = "CLOSED"
              /\ TradeCount(trades, exit_signals[t][i].signal_id) = 1

\* The latest step was a sync of tracker t that went through.
JustSynced(t) ==
    /\ obs.sample = "none"
    /\ "synced" \in DOMAIN obs
    /\ obs.tracker = t
    /\ obs.synced

\* Tracker t's maps agree with the store: the open map holds exactly the
\* signals that are OPEN in the store, the partial-close state holds exactly
\* those ids with the status, the breakeven flag, the current stop (the
\* original stop when none was recorded) and the TP1 PnL of the store
\* record, and every reversal counter belongs to an id of the open map.
MatchesStore(t) ==
    /\ DOMAIN open_signals_cache[t] = OpenIds
    /\ DOMAIN partial_close_cache[t] = OpenIds
    /\ \A s \in OpenIds :
          LET r == signals[s]
              p == partial_close_cache[t][s]
          IN  /\ open_signals_cache[t][s].id = s
              /\ p.status = r.partial_close_status
              /\ p.breakeven_moved = r.breakeven_moved
              /\ p.current_sl = IF r.current_stop_loss = NULL
                                THEN r.stop_loss
                                ELSE r.current_stop_loss
              /\ p.tp1_pnl = r.tp1_pnl
    /\ DOMAIN reversal_counters[t] \subseteq DOMAIN open_signals_cache[t]

\* C25: after every successful sync the tracker's maps agree with the store
\* (open map, partial-close state, no reversal counter outside the open
\* map), and a successful sync that directly follows another one of the
\* same tracker, with no store change in between, leaves the open map
\* identical.
C25_SyncMatchesStore ==
    [][ \A t \in running :
          JustSynced(t)' =>
              /\ MatchesStore(t)'
              /\ JustSynced(t) =>
                    open_signals_cache'[t] = open_signals_cache[t] ]_vars

\* C25 happens: a sync went through while the store holds a signal that a
\* committed batch closed.
C25_Witness ==
    /\ JustSynced(1)
    /\ \E s \in DOMAIN signals : signals[s].status = "CLOSED"
    /\ open_signals_cache[1] = EmptyDict

\* C26: a get of a key whose latest set carried a TTL that has elapsed
\* since that set returns nothing, with Redis in use and with the fallback
\* map in use.
C26_ExpiredKeyAbsent ==
    (rm_call.op = "get"
       /\ rm_call.key \in DOMAIN rm_last_set
       /\ rm_now - rm_last_set[rm_call.key].at
             >= rm_last_set[rm_call.key].expiry)
    => rm_call.result = << >>

\* C27: in every state of the rate limiter the total weight of the requests
\* admitted within the last 60 seconds is at most the configured maximum,
\* corrections from the server's headers included.
C27_WindowWeightBounded ==
    WeightSince(requests, rl_now - window_seconds) <= max_weight

\* C28: the Trade record of a closure at TP2 carries, as total PnL, half of
\* the move from entry to TP1 plus half of the move from entry to TP2; for
\* the placements of scenario 1 (entry 100.00, TP1 100.95, TP2 101.90 and
\* the SHORT mirror) that is 1.425 %, whether or not a sync reloaded the
\* TP1 PnL from the store between the two fills.
C28_TotalPnlAtTp2 ==
    \A i \in DOMAIN trades :
        trades[i].exit_reason = "TAKE_PROFIT_2" =>
            LET r == signals[trades[i].signal_id]
            IN  /\ trades[i].pnl =
                      HalfPnl(r.direction, r.entry_price, r.take_profit_1)
                        + HalfPnl(r.direction, r.entry_price, r.take_profit_2)
                /\ trades[i].pnl = 1425

\* C30: once the stream URL is built, it names the depth feed of every
\* instrument along with top-of-book, trades and candles, and with the
\* stream connected and delivering messages the keys orderbook:<I> and
\* imbalance:<I> of every instrument are eventually written.
C30_DepthKeysEventuallyPresent ==
    /\ [](all_streams # {} =>
            \A symbol \in Symbols :
               \A feed \in Feeds : <<symbol, feed>> \in all_streams)
    /\ \A symbol \in Symbols :
          <>(<<"orderbook", symbol>> \in snapshot_keys
               /\ <<"imbalance", symbol>> \in snapshot_keys)

\* C32: a tracker's open map and its partial-close state change only in a
\* step that synced them from the store or in the step in which the commit
\* of the closure batch succeeded; so a tick whose batch fails leaves both
\* maps as they were.
C32_MapsFollowStore ==
    [][ \A t \in running :
          (open_signals_cache'[t] # open_signals_cache[t]
             \/ partial_close_cache'[t] # partial_close_cache[t])
          => \/ JustSynced(t)'
             \/ batch[t] = "none" /\ batch'[t] = "committed" ]_vars

\* C33: a tracker's partial-close status of a signal never goes from
\* TP1_CLOSED back to NONE, whatever the step (check, closure batch,
\* committed or failed, or sync); hence the TP1 partial fill of a signal is
\* decided at most once.
C33_PartialStatusMonotone ==
    [][ \A t \in running :
          \A s \in DOMAIN partial_close_cache[t] :
              (partial_close_cache[t][s].status = "TP1_CLOSED"
                 /\ s \in DOMAIN partial_close_cache'[t])
              => partial_close_cache'[t][s].status # "NONE" ]_vars

\* C38: no signal record is CLOSED with partial_close_status TP1_CLOSED:
\* the commit that closes a signal after its TP1 partial fill also sets
\* the partial-close status to FULLY_CLOSED.
C38_ClosedIsFullyClosed ==
    \A s \in DOMAIN signals :
        signals[s].status = "CLOSED"
            => signals[s].partial_close_status # "TP1_CLOSED"
C35_NotifiedIsPersisted ==
    \A s \in telegram_sent : s \in DOMAIN signals

\* C37: at every moment at most one signal with status OPEN exists per
\* instrument.
C37_OneOpenPerInstrument ==
    \A s1 \in DOMAIN signals, s2 \in DOMAIN signals :
        (/\ signals[s1].status = "OPEN"
         /\ signals[s2].status = "OPEN"
         /\ signals[s1].symbol = signals[s2].symbol)
            => s1 = s2

\* C39: every request that has entered the admission loop of _make_request
\* with a weight of at most the maximum is eventually admitted, in every
\* state the limiter can reach, corrections from headers included.
C39_EventuallyAdmitted ==
    (pending # NULL) ~> (pending = NULL)

\* C36: once the running flag is cleared every loop of run() eventually
\* exits, and the fast tracker's loop exits only from the test between two
\* iterations, never with a closure batch of its iteration unfinished.
C36_LoopsExitAfterShutdown ==
    /\ (~scanner_running) ~> (\A l \in Loops : loop_pc[l] = "exited")
    /\ [][ (loop_pc[FastLoop] # "exited" /\ loop_pc'[FastLoop] = "exited")
             => loop_pc[FastLoop] = "start" ]_vars

\* C31: an OPEN signal is evaluated by every tick whatever the active
\* universe is (no step of the tracker reads it), and if from some tick on
\* every check finds both snapshots, finds the mid price at or beyond the
\* signal's current stop or its pending take-profit, and no closure batch
\* fails in the store, then a signal that is OPEN with nothing closed is
\* eventually CLOSED or partially closed at TP1, and a signal that is OPEN
\* with TP1 closed is eventually CLOSED.
ExitLevelHeld ==
    /\ obs.sample # "skipped"
    /\ obs.sample = "evaluated" => obs.at_exit_level
    /\ \A t \in Trackers : batch[t] # "failed"

C31_ExitLevelLeadsToClosure ==
    (<>[]ExitLevelHeld) =>
        \A s \in SignalIds :
            /\ (s \in OpenIds /\ signals[s].partial_close_status = "NONE")
                  ~> (s \in DOMAIN signals
                      /\ (signals[s].status = "CLOSED"
                          \/ signals[s].partial_close_status = "TP1_CLOSED"))
            /\ (s \in OpenIds /\ signals[s].partial_close_status = "TP1_CLOSED")
                  ~> (s \in DOMAIN signals /\ signals[s].status = "CLOSED")

\* A check found the price at an exit level of a signal whose TP1 part was
\* closed, and the batch of that tick committed the closure.
C31_Witness ==
    /\ batch[1] = "committed"
    /\ 1 \in DOMAIN signals
    /\ signals[1].status = "CLOSED"
    /\ signals[1].partial_close_status = "FULLY_CLOSED"

====
